---- MODULE Spec2Model ----
(***************************************************************************)
(* qstd-config: the cross-process storage layer.                           *)
(*                                                                         *)
(* Several MultiprocessingStorage instances, one per process, share one    *)
(* multiprocessing dict (the context).  Every access to the shared dict is *)
(* one atomic step; the two writes of init_storage / update and the two    *)
(* reads of current() are separate steps, so that the processes            *)
(* interleave exactly where the code lets them.                            *)
(***************************************************************************)
EXTENDS Naturals, Integers, Sequences, FiniteSets, TLC

\* ------------------------------------------------------------------ bounds
NumProcs == 2
MaxWrites == 2
NumScalars == 1

MaxLoads == 3
MaxNameLen == 4
MaxFields == 3

Procs == 1..NumProcs

\* ------------------------------------------------------------ value domain
\* Python's None where a string is expected (a reference, a revision token).
None == "None"

\* Python's None where a model value or a mapping is expected; in the shared
\* dict it stands for "the key is absent".
NoValue == [cls |-> "NoneType"]

\* AppConfig(debug: bool), the validated model the storages hold.
Values == [cls : {"AppConfig"}, debug : BOOLEAN]

\* value.model_dump(mode='json'): the plain mapping stored in the context.
model_dump(v) == [debug |-> v.debug]

\* model_cls.model_validate(mapping): a fresh validated value.
model_validate(m) == [cls |-> "AppConfig", debug |-> m.debug]

Configs == {model_dump(v) : v \in Values}

\* Revision tokens.  os.urandom(16).hex() is modelled as a nonce: the n-th
\* token drawn is "r<n>", so no two draws are equal.
Token(n) == "r" \o ToString(n)

VARIABLES
    procName,    \* multiprocessing.current_process().name of each process
    value,       \* self._value
    mpDict,      \* self._multiprocessing_dict: None or a reference to ctx
    curRev,      \* self._current_revision
    ctx,         \* the shared dict: its 'config' and 'revision' entries
    pc,          \* where each process stands inside a call
    arg,         \* the parameter value of a running update()
    rev,         \* the local variable rev of a running current()
    nextTok,     \* the number of the next token os.urandom yields
    ev,          \* the last call that returned: who, what, argument, result, signal
    seeders,     \* history: the processes that wrote an initial config
    lastUpdate,  \* history: the latest update, until another call writes the dict
    cfgSeq,      \* history: how many times ctx['config'] was written
    pendSeq,     \* history: the number of the config write of a call in progress
    tokSeq,      \* history: per token, the number of the config written with it
    cfgRead,     \* history: the number of the config each storage last deserialized
    scn          \* history: progress of the two-process scenario (ScnStep)

\* The storages of the processes and their shared dict.
storageVars == <<procName, value, mpDict, curRev, ctx, pc, arg, rev, nextTok, ev,
                 seeders, lastUpdate, cfgSeq, pendSeq, tokSeq, cfgRead, scn>>

VARIABLES
    pxProc,      \* the process the ProxyConfig and its storages live in
    pxStorage,   \* ProxyConfig._storage: None or a reference to a storage
    memValue,    \* InMemoryStorage._value
    pxPc,        \* where the proxy stands inside __getattr__
    pxItem,      \* the parameter item of a running __getattr__
    pxEv,        \* the last call that returned in the proxy's process
    pxSetup,     \* history: init_storage was called on the proxy's process
    memLast,     \* history: the value InMemoryStorage was last given
    pxUpdated    \* history: the bound storage was updated to another value

proxyVars == <<pxProc, pxStorage, memValue, pxPc, pxItem, pxEv, pxSetup, memLast, pxUpdated>>

VARIABLES
    heap,        \* the dict objects of the raw mappings, by address
    mBase,       \* cross_merge_dicts: the address of dict_a
    mOver,       \* cross_merge_dicts: the address of dict_b
    mRes,        \* cross_merge_dicts: the address of the result, 0 before the call
    heap0,       \* history: the heap when cross_merge_dicts was called
    mBase0,      \* history: the content of dict_a when the call was made
    mOver0       \* history: the content of dict_b when the call was made

mergeVars == <<mBase, mOver, mRes, heap0, mBase0, mOver0>>

VARIABLES
    environ,     \* os.environ: per variable name its string, or None when unset
    eList,       \* assign_env_to_dict: env_list, the fields with name and path
    eConfig,     \* assign_env_to_dict: the address of config, 0 when none
    eUsed,       \* assign_env_to_dict: the list returned
    eSig,        \* assign_env_to_dict: "none" before the call, then how it ended
    eConfig0     \* history: the content of config when the call was made

envVars == <<environ, eList, eConfig, eUsed, eSig, eConfig0>>

VARIABLES
    mVariant,    \* ConfigManager: the base class of config_cls
    mConfig,     \* ConfigManager._config: the address of the held object, 0 for None
    objs,        \* the configuration objects, by address: attribute |-> value
    mDict ,      \* ConfigManager._multiprocessing_dict, <<>> while there is none
    mUsedEnv,    \* ConfigManager.used_env
    mSig,        \* load_configuration: "none" before a call, then how the last ended
    mLoads,      \* load_configuration: the calls made
    mIn,         \* history: the sources of the last call
    mPreHook,    \* history: the mapping the last call built before the hook
    mRaw,        \* history: the mapping the last call handed to the validator
    mValid,      \* history: the validated data of the last successful call
    mFirst       \* history: the objects the first successful call returned

mgrVars == <<mVariant, mConfig, objs, mDict, mUsedEnv, mSig, mLoads,
             mIn, mPreHook, mRaw, mValid, mFirst>>

VARIABLES
    iPc,         \* which of the functions below was given input, and whether it returned
    uName,       \* unify_name: the argument, a sequence of characters
    uOut,        \* unify_name: the value returned
    lCls,        \* create_env_list_from_cls: the configuration class
    lPrefix,     \* create_env_list_from_cls: project_name, <<>> for None
    lList,       \* create_env_list_from_cls: the list returned
    cpIn,        \* ConfigManager.__init__: the arguments and the process environment
    cpPaths      \* ConfigManager.config_paths

introVars == <<iPc, uName, uOut, lCls, lPrefix, lList, cpIn, cpPaths>>

vars == <<storageVars, proxyVars, heap, mergeVars, envVars, mgrVars, introVars>>

hist == <<seeders, lastUpdate, cfgSeq, pendSeq, tokSeq, cfgRead>>

\* No mapping takes part.
MergeOff ==
    /\ heap = <<>>
    /\ mBase = 0
    /\ mOver = 0
    /\ mRes = 0
    /\ heap0 = <<>>
    /\ mBase0 = <<>>
    /\ mOver0 = <<>>

\* No environment assignment takes part.
EnvOff ==
    /\ environ = <<>>
    /\ eList = <<>>
    /\ eConfig = 0
    /\ eUsed = <<>>
    /\ eSig = "none"
    /\ eConfig0 = <<>>

\* No name, class or path list takes part.
IntroOff ==
    /\ iPc = "none"
    /\ uName = <<>>
    /\ uOut = <<>>
    /\ lCls = <<>>
    /\ lPrefix = <<>>
    /\ lList = <<>>
    /\ cpIn = <<>>
    /\ cpPaths = <<>>

\* No configuration manager takes part.
MgrOff ==
    /\ mVariant = "none"
    /\ mConfig = 0
    /\ objs = <<>>
    /\ mDict = <<>>
    /\ mUsedEnv = <<>>
    /\ mSig = "none"
    /\ mLoads = 0
    /\ mIn = <<>>
    /\ mPreHook = <<>>
    /\ mRaw = <<>>
    /\ mValid = <<>>
    /\ mFirst = <<>>

\* utils.is_main_process
is_main_process(p) == procName[p] = "MainProcess"

\* MultiprocessingStorage.is_initialized
is_initialized(p) == mpDict[p] # None

\* Mutant of urandom_hex: the token is not fresh.
urandom_hex_fixed == Token(1)

\* os.urandom(16).hex()
urandom_hex == Token(nextTok)

\* Mutant of revision_differs: the shared revision is looked at only until a
\* first one is cached.
revision_differs_once(p, r) == r # curRev[p] /\ curRev[p] = None

\* current, line 108: rev != self._current_revision
revision_differs(p, r) == r # curRev[p]

\* Calls that still owe the shared dict their revision write.
Writing == {q \in Procs : pc[q] \in {"init_rev", "upd_rev"}}

\* No more than MaxWrites writing calls are started.
CanWrite == (nextTok - 1) + Cardinality(Writing) < MaxWrites

Event(p, op, a, r, sig) == [p |-> p, op |-> op, arg |-> a, ret |-> r, sig |-> sig]

NoEv == Event(0, "none", NoValue, NoValue, "ok")

NoUpd == [p |-> 0, v |-> NoValue, done |-> FALSE]

\* multiprocessing.Manager().dict(): a dict with no keys.
EmptyCtx == [config |-> NoValue, revision |-> None]

\* ------------------------------------------------------- scenario monitor
\* The monitor follows one run of calls, each returning before the next starts:
\*   P1.init_storage, P2.init_storage, P2.current, P1.update(V2), P2.current
\* Stage 2k+1: the k-th call is running; 2k+2: it has returned.  Any other call
\* switches the monitor off.
ScnInit == [on |-> TRUE, stage |-> 0, p1 |-> 0, p2 |-> 0, v1 |-> NoValue, v2 |-> NoValue]

ScnOff == [on |-> FALSE, stage |-> 0, p1 |-> 0, p2 |-> 0, v1 |-> NoValue, v2 |-> NoValue]

ScnWho(k, p) ==
    CASE k = 0 -> TRUE
      [] k = 1 -> p # scn.p1
      [] k = 2 -> p = scn.p2
      [] k = 3 -> p = scn.p1
      [] k = 4 -> p = scn.p2
      [] OTHER -> FALSE

ScnOp(k) ==
    CASE k \in {0, 1} -> "init_storage"
      [] k \in {2, 4} -> "current"
      [] k = 3 -> "update"
      [] OTHER -> "none"

\* Process p starts (starts = TRUE) and/or returns from (returns = TRUE) a call
\* of op with argument a.
ScnStep(p, op, a, starts, returns) ==
    LET k == scn.stage \div 2
        from == IF starts THEN 2 * k ELSE 2 * k + 1
        to == IF returns THEN 2 * k + 2 ELSE 2 * k + 1
    IN  IF scn.on /\ scn.stage = from /\ ScnOp(k) = op /\ ScnWho(k, p)
        THEN [scn EXCEPT !.stage = to,
                         !.p1 = IF k = 0 THEN p ELSE @,
                         !.v1 = IF k = 0 THEN value[p] ELSE @,
                         !.p2 = IF k = 1 THEN p ELSE @,
                         !.v2 = IF k = 3 /\ starts THEN a ELSE @]
        ELSE ScnOff

\* ---------------------------------------------------------------- history
\* The number n of the token "r<n>".
TokNum(t) == CHOOSE n \in 1..Len(tokSeq) : Token(n) = t

\* ------------------------------------------------------------------- Init
\* MultiprocessingStorage.__init__ in every process.  Process 1 is the main
\* process of the group, the others are its children.
StorageInit ==
    /\ procName = [p \in Procs |-> IF p = 1 THEN "MainProcess" ELSE "Worker"]
    /\ value \in [Procs -> Values]
    /\ mpDict = [p \in Procs |-> None]
    /\ curRev = [p \in Procs |-> None]
    /\ ctx = EmptyCtx
    /\ pc = [p \in Procs |-> "idle"]
    /\ arg = [p \in Procs |-> NoValue]
    /\ rev = [p \in Procs |-> None]
    /\ nextTok = 1
    /\ ev = NoEv
    /\ seeders = {}
    /\ lastUpdate = NoUpd
    /\ cfgSeq = 0
    /\ pendSeq = [p \in Procs |-> 0]
    /\ tokSeq = <<>>
    /\ cfgRead = [p \in Procs |-> 0]
    /\ scn = ScnInit

\* ---------------------------------------------------------------- actions
\* Mutant of InitStorage: the main process binds the dict and leaves the
\* 'config' write out.
InitStorageNoConfig(p) ==
    /\ pc[p] = "idle"
    /\ is_main_process(p) => CanWrite
    /\ mpDict' = [mpDict EXCEPT ![p] = "ctx"]
    /\ IF is_main_process(p)
       THEN /\ pc' = [pc EXCEPT ![p] = "init_rev"]
            /\ seeders' = seeders \cup {p}
            /\ lastUpdate' = NoUpd
            /\ cfgSeq' = cfgSeq + 1
            /\ pendSeq' = [pendSeq EXCEPT ![p] = cfgSeq + 1]
            /\ scn' = ScnStep(p, "init_storage", NoValue, TRUE, FALSE)
            /\ UNCHANGED <<ev, ctx>>
       ELSE /\ ev' = Event(p, "init_storage", NoValue, NoValue, "ok")
            /\ scn' = ScnStep(p, "init_storage", NoValue, TRUE, TRUE)
            /\ UNCHANGED <<ctx, pc, seeders, lastUpdate, cfgSeq, pendSeq>>
    /\ UNCHANGED <<procName, value, curRev, arg, rev, nextTok, tokSeq, cfgRead>>

\* init_storage, lines 81-83: bind the dict; the main process writes 'config'.
InitStorage(p) ==
    /\ pc[p] = "idle"
    /\ is_main_process(p) => CanWrite
    /\ mpDict' = [mpDict EXCEPT ![p] = "ctx"]
    /\ IF is_main_process(p)
       THEN /\ ctx' = [ctx EXCEPT !.config = model_dump(value[p])]
            /\ pc' = [pc EXCEPT ![p] = "init_rev"]
            /\ seeders' = seeders \cup {p}
            /\ lastUpdate' = NoUpd
            /\ cfgSeq' = cfgSeq + 1
            /\ pendSeq' = [pendSeq EXCEPT ![p] = cfgSeq + 1]
            /\ scn' = ScnStep(p, "init_storage", NoValue, TRUE, FALSE)
            /\ UNCHANGED ev
       ELSE /\ ev' = Event(p, "init_storage", NoValue, NoValue, "ok")
            /\ scn' = ScnStep(p, "init_storage", NoValue, TRUE, TRUE)
            /\ UNCHANGED <<ctx, pc, seeders, lastUpdate, cfgSeq, pendSeq>>
    /\ UNCHANGED <<procName, value, curRev, arg, rev, nextTok, tokSeq, cfgRead>>

\* Mutant of InitStorageRevision: a revision that is there is kept.
InitStorageRevisionKept(p) ==
    /\ pc[p] = "init_rev"
    /\ ctx' = [ctx EXCEPT !.revision = IF @ = None THEN urandom_hex ELSE @]
    /\ nextTok' = nextTok + 1
    /\ pc' = [pc EXCEPT ![p] = "idle"]
    /\ ev' = Event(p, "init_storage", NoValue, NoValue, "ok")
    /\ lastUpdate' = NoUpd
    /\ tokSeq' = Append(tokSeq, pendSeq[p])
    /\ pendSeq' = [pendSeq EXCEPT ![p] = 0]
    /\ scn' = ScnStep(p, "init_storage", NoValue, FALSE, TRUE)
    /\ UNCHANGED <<procName, value, mpDict, curRev, arg, rev, seeders, cfgSeq, cfgRead>>

\* init_storage, line 84: the main process writes 'revision'.
InitStorageRevision(p) ==
    /\ pc[p] = "init_rev"
    /\ ctx' = [ctx EXCEPT !.revision = urandom_hex]
    /\ nextTok' = nextTok + 1
    /\ pc' = [pc EXCEPT ![p] = "idle"]
    /\ ev' = Event(p, "init_storage", NoValue, NoValue, "ok")
    /\ lastUpdate' = NoUpd
    /\ tokSeq' = Append(tokSeq, pendSeq[p])
    /\ pendSeq' = [pendSeq EXCEPT ![p] = 0]
    /\ scn' = ScnStep(p, "init_storage", NoValue, FALSE, TRUE)
    /\ UNCHANGED <<procName, value, mpDict, curRev, arg, rev, seeders, cfgSeq, cfgRead>>

\* Mutant of Update: no check that the storage is bound.
UpdateUnguarded(p, v) ==
    /\ pc[p] = "idle"
    /\ CanWrite
    /\ ctx' = [ctx EXCEPT !.config = model_dump(v)]
    /\ pc' = [pc EXCEPT ![p] = "upd_rev"]
    /\ arg' = [arg EXCEPT ![p] = v]
    /\ lastUpdate' = [p |-> p, v |-> v, done |-> FALSE]
    /\ cfgSeq' = cfgSeq + 1
    /\ pendSeq' = [pendSeq EXCEPT ![p] = cfgSeq + 1]
    /\ scn' = ScnStep(p, "update", v, TRUE, FALSE)
    /\ UNCHANGED <<procName, value, mpDict, curRev, rev, nextTok, ev, seeders, tokSeq, cfgRead>>

\* update, lines 87-89: raise when unbound, else write 'config'.
Update(p, v) ==
    /\ pc[p] = "idle"
    /\ IF mpDict[p] = None
       THEN /\ ev' = Event(p, "update", v, NoValue, "RuntimeError")
            /\ scn' = ScnStep(p, "update", v, TRUE, TRUE)
            /\ UNCHANGED <<ctx, pc, arg, lastUpdate, cfgSeq, pendSeq>>
       ELSE /\ CanWrite
            /\ ctx' = [ctx EXCEPT !.config = model_dump(v)]
            /\ pc' = [pc EXCEPT ![p] = "upd_rev"]
            /\ arg' = [arg EXCEPT ![p] = v]
            /\ lastUpdate' = [p |-> p, v |-> v, done |-> FALSE]
            /\ cfgSeq' = cfgSeq + 1
            /\ pendSeq' = [pendSeq EXCEPT ![p] = cfgSeq + 1]
            /\ scn' = ScnStep(p, "update", v, TRUE, FALSE)
            /\ UNCHANGED ev
    /\ UNCHANGED <<procName, value, mpDict, curRev, rev, nextTok, seeders, tokSeq, cfgRead>>

\* Mutant of UpdateRevision: the revision write is missing.
UpdateRevisionLost(p) ==
    /\ pc[p] = "upd_rev"
    /\ nextTok' = nextTok + 1
    /\ pc' = [pc EXCEPT ![p] = "idle"]
    /\ arg' = [arg EXCEPT ![p] = NoValue]
    /\ ev' = Event(p, "update", arg[p], NoValue, "ok")
    /\ lastUpdate' = IF lastUpdate.p = p THEN [lastUpdate EXCEPT !.done = TRUE] ELSE NoUpd
    /\ tokSeq' = Append(tokSeq, pendSeq[p])
    /\ pendSeq' = [pendSeq EXCEPT ![p] = 0]
    /\ scn' = ScnStep(p, "update", arg[p], FALSE, TRUE)
    /\ UNCHANGED <<procName, value, mpDict, curRev, ctx, rev, seeders, cfgSeq, cfgRead>>

\* update, line 90: write 'revision'.
UpdateRevision(p) ==
    /\ pc[p] = "upd_rev"
    /\ ctx' = [ctx EXCEPT !.revision = urandom_hex]
    /\ nextTok' = nextTok + 1
    /\ pc' = [pc EXCEPT ![p] = "idle"]
    /\ arg' = [arg EXCEPT ![p] = NoValue]
    /\ ev' = Event(p, "update", arg[p], NoValue, "ok")
    /\ lastUpdate' = IF lastUpdate.p = p THEN [lastUpdate EXCEPT !.done = TRUE] ELSE NoUpd
    /\ tokSeq' = Append(tokSeq, pendSeq[p])
    /\ pendSeq' = [pendSeq EXCEPT ![p] = 0]
    /\ scn' = ScnStep(p, "update", arg[p], FALSE, TRUE)
    /\ UNCHANGED <<procName, value, mpDict, curRev, rev, seeders, cfgSeq, cfgRead>>

\* Mutant of Current: an unbound storage raises, as update does.
CurrentStrict(p) ==
    /\ pc[p] = "idle"
    /\ IF mpDict[p] = None
       THEN /\ ev' = Event(p, "current", NoValue, NoValue, "RuntimeError")
            /\ scn' = ScnStep(p, "current", NoValue, TRUE, TRUE)
            /\ UNCHANGED <<pc, rev>>
       ELSE IF revision_differs(p, ctx.revision)
            THEN /\ rev' = [rev EXCEPT ![p] = ctx.revision]
                 /\ pc' = [pc EXCEPT ![p] = "cur_cfg"]
                 /\ scn' = ScnStep(p, "current", NoValue, TRUE, FALSE)
                 /\ UNCHANGED ev
            ELSE /\ ev' = Event(p, "current", NoValue, value[p], "ok")
                 /\ scn' = ScnStep(p, "current", NoValue, TRUE, TRUE)
                 /\ UNCHANGED <<pc, rev>>
    /\ UNCHANGED <<procName, value, mpDict, curRev, ctx, arg, nextTok, hist>>

\* current, lines 98-108 and 111: warn and return when unbound, else read
\* 'revision' and return the cached value when it is the cached revision.
Current(p) ==
    /\ pc[p] = "idle"
    /\ IF mpDict[p] = None
       THEN /\ ev' = Event(p, "current", NoValue, value[p], "RuntimeWarning")
            /\ scn' = ScnStep(p, "current", NoValue, TRUE, TRUE)
            /\ UNCHANGED <<pc, rev>>
       ELSE IF revision_differs(p, ctx.revision)
            THEN /\ rev' = [rev EXCEPT ![p] = ctx.revision]
                 /\ pc' = [pc EXCEPT ![p] = "cur_cfg"]
                 /\ scn' = ScnStep(p, "current", NoValue, TRUE, FALSE)
                 /\ UNCHANGED ev
            ELSE /\ ev' = Event(p, "current", NoValue, value[p], "ok")
                 /\ scn' = ScnStep(p, "current", NoValue, TRUE, TRUE)
                 /\ UNCHANGED <<pc, rev>>
    /\ UNCHANGED <<procName, value, mpDict, curRev, ctx, arg, nextTok, hist>>

\* Mutant of CurrentLoad: the revision is cached, the config is not re-read.
CurrentLoadKeepsValue(p) ==
    /\ pc[p] = "cur_cfg"
    /\ pc' = [pc EXCEPT ![p] = "idle"]
    /\ rev' = [rev EXCEPT ![p] = None]
    /\ curRev' = [curRev EXCEPT ![p] = rev[p]]
    /\ ev' = Event(p, "current", NoValue, value[p], "ok")
    /\ scn' = ScnStep(p, "current", NoValue, FALSE, TRUE)
    /\ UNCHANGED <<procName, value, mpDict, ctx, arg, nextTok, hist>>

\* current, lines 109-111: read 'config' (KeyError when absent), validate it,
\* cache it with the revision read before, return it.
CurrentLoad(p) ==
    /\ pc[p] = "cur_cfg"
    /\ pc' = [pc EXCEPT ![p] = "idle"]
    /\ rev' = [rev EXCEPT ![p] = None]
    /\ IF ctx.config = NoValue
       THEN /\ ev' = Event(p, "current", NoValue, NoValue, "KeyError")
            /\ UNCHANGED <<value, curRev, cfgRead>>
       ELSE /\ value' = [value EXCEPT ![p] = model_validate(ctx.config)]
            /\ curRev' = [curRev EXCEPT ![p] = rev[p]]
            /\ cfgRead' = [cfgRead EXCEPT ![p] = cfgSeq]
            /\ ev' = Event(p, "current", NoValue, model_validate(ctx.config), "ok")
    /\ scn' = ScnStep(p, "current", NoValue, FALSE, TRUE)
    /\ UNCHANGED <<procName, mpDict, ctx, arg, nextTok,
                   seeders, lastUpdate, cfgSeq, pendSeq, tokSeq>>

\* ------------------------------------------------------------ ProxyConfig
\* The storages a proxy can be bound to: the InMemoryStorage and the
\* MultiprocessingStorage of the proxy's process.
StorageRefs == {"InMemoryStorage", "MultiprocessingStorage"}

\* The names asked of the proxy: a field of AppConfig and a name that is none.
ItemNames == {"debug", "unknown_field"}

PxEvent(op, a, r, sig) == [op |-> op, arg |-> a, ret |-> r, sig |-> sig]

NoPxEv == PxEvent("none", None, NoValue, "ok")

\* getattr(value, item) on a validated model: the field, or AttributeError.
getattr(v, item) ==
    IF item \in DOMAIN v \ {"cls"}
    THEN [ret |-> v[item], sig |-> "ok"]
    ELSE [ret |-> NoValue, sig |-> "AttributeError"]

\* InMemoryStorage.current
mem_current == memValue

\* StorageABC.is_initialized of the storage s in the proxy's process.
storage_is_initialized(s) ==
    IF s = "InMemoryStorage" THEN TRUE ELSE is_initialized(pxProc)

\* Mutant of is_ready: bound is taken for ready.
is_ready_bound_only == pxStorage # None

\* ProxyConfig.is_ready
is_ready == pxStorage # None /\ storage_is_initialized(pxStorage)

\* Mutant of ProxyBind: no check that the proxy is unbound.
ProxyBindAgain(s) ==
    /\ pxPc = "idle" /\ pc[pxProc] = "idle"
    /\ pxStorage' = s
    /\ pxEv' = PxEvent("bind", s, NoValue, "ok")
    /\ pxUpdated' = FALSE
    /\ UNCHANGED <<storageVars, pxProc, memValue, pxPc, pxItem, pxSetup, memLast>>

\* ProxyConfig.bind
ProxyBind(s) ==
    /\ pxPc = "idle" /\ pc[pxProc] = "idle"
    /\ IF pxStorage # None
       THEN /\ pxEv' = PxEvent("bind", s, NoValue, "RuntimeError")
            /\ UNCHANGED <<pxStorage, pxUpdated>>
       ELSE /\ pxStorage' = s
            /\ pxEv' = PxEvent("bind", s, NoValue, "ok")
            /\ pxUpdated' = FALSE
    /\ UNCHANGED <<storageVars, pxProc, memValue, pxPc, pxItem, pxSetup, memLast>>

\* The property is_ready read by the application.
ProxyIsReady ==
    /\ pxPc = "idle" /\ pc[pxProc] = "idle"
    /\ pxEv' = PxEvent("is_ready", None, is_ready, "ok")
    /\ UNCHANGED <<storageVars, pxProc, pxStorage, memValue, pxPc, pxItem,
                   pxSetup, memLast, pxUpdated>>

\* Mutant of getattr_unbound_error: the unbound proxy raises what a missing
\* field raises.
getattr_unbound_attribute_error == "AttributeError"

\* __getattr__, line 40: the error of an unbound proxy.
getattr_unbound_error == "RuntimeError"

\* What __getattr__ returns once storage.current() has returned with event e.
GetattrOf(e, item) ==
    IF e.sig \in {"ok", "RuntimeWarning"}
    THEN PxEvent("getattr", item, getattr(e.ret, item).ret, getattr(e.ret, item).sig)
    ELSE PxEvent("getattr", item, NoValue, e.sig)

\* ProxyConfig.__getattr__: raise when unbound, else call storage.current()
\* and read the attribute of what it returns.  current() of the
\* MultiprocessingStorage is the action Current of the storage model.
ProxyGetattr(item) ==
    /\ pxPc = "idle" /\ pc[pxProc] = "idle"
    /\ IF pxStorage = None
       THEN /\ pxEv' = PxEvent("getattr", item, NoValue, getattr_unbound_error)
            /\ UNCHANGED <<storageVars, pxPc, pxItem>>
       ELSE IF pxStorage = "InMemoryStorage"
            THEN /\ pxEv' = GetattrOf(Event(pxProc, "current", NoValue, mem_current, "ok"), item)
                 /\ UNCHANGED <<storageVars, pxPc, pxItem>>
            ELSE /\ Current(pxProc)
                 /\ IF pc'[pxProc] = "idle"
                    THEN /\ pxEv' = GetattrOf(ev', item)
                         /\ UNCHANGED <<pxPc, pxItem>>
                    ELSE /\ pxPc' = "getattr"
                         /\ pxItem' = item
                         /\ UNCHANGED pxEv
    /\ UNCHANGED <<pxProc, pxStorage, memValue, pxSetup, memLast, pxUpdated>>

\* __getattr__ on a MultiprocessingStorage whose current() reloads the config.
ProxyGetattrLoad ==
    /\ pxPc = "getattr"
    /\ CurrentLoad(pxProc)
    /\ pxEv' = GetattrOf(ev', pxItem)
    /\ pxPc' = "idle"
    /\ pxItem' = None
    /\ UNCHANGED <<pxProc, pxStorage, memValue, pxSetup, memLast, pxUpdated>>

\* Mutant of MemUpdate: the new value is not stored.
MemUpdateDropped(v) ==
    /\ pxPc = "idle" /\ pc[pxProc] = "idle"
    /\ memLast' = v
    /\ pxUpdated' = (pxStorage = "InMemoryStorage" /\ v # memValue)
    /\ pxEv' = PxEvent("update", None, NoValue, "ok")
    /\ UNCHANGED <<storageVars, pxProc, pxStorage, memValue, pxPc, pxItem, pxSetup>>

\* InMemoryStorage.update
MemUpdate(v) ==
    /\ pxPc = "idle" /\ pc[pxProc] = "idle"
    /\ memValue' = v
    /\ memLast' = v
    /\ pxUpdated' = (pxStorage = "InMemoryStorage" /\ v # memValue)
    /\ pxEv' = PxEvent("update", None, NoValue, "ok")
    /\ UNCHANGED <<storageVars, pxProc, pxStorage, pxPc, pxItem, pxSetup>>

\* A call of init_storage or update on the MultiprocessingStorage of the
\* proxy's process, made by the application and not through the proxy.
ProxyProcStorageCall ==
    /\ pxPc = "idle"
    /\ \/ InitStorage(pxProc) /\ pxSetup' = TRUE /\ UNCHANGED pxUpdated
       \/ InitStorageRevision(pxProc) /\ UNCHANGED <<pxSetup, pxUpdated>>
       \/ /\ \E v \in Values : Update(pxProc, v)
          /\ UNCHANGED <<pxSetup, pxUpdated>>
       \/ /\ UpdateRevision(pxProc)
          /\ pxUpdated' = (pxStorage = "MultiprocessingStorage" /\ arg[pxProc] # value[pxProc])
          /\ UNCHANGED pxSetup
    /\ pxEv' = PxEvent("storage", None, NoValue, "ok")
    /\ UNCHANGED <<pxProc, pxStorage, memValue, pxPc, pxItem, memLast>>

\* The proxy, an InMemoryStorage and a MultiprocessingStorage constructed in
\* one process; the proxy is not bound yet.
ProxyInit ==
    /\ StorageInit
    /\ MergeOff
    /\ EnvOff
    /\ MgrOff
    /\ IntroOff
    /\ pxProc \in Procs
    /\ pxStorage = None
    /\ memValue \in Values
    /\ memLast = memValue
    /\ pxPc = "idle"
    /\ pxItem = None
    /\ pxEv = NoPxEv
    /\ pxSetup = FALSE
    /\ pxUpdated = FALSE

ProxyNext ==
    \/ (\E s \in StorageRefs : ProxyBind(s)) /\ UNCHANGED <<heap, mergeVars, envVars, mgrVars, introVars>>
    \/ ProxyIsReady /\ UNCHANGED <<heap, mergeVars, envVars, mgrVars, introVars>>
    \/ (\E item \in ItemNames : ProxyGetattr(item)) /\ UNCHANGED <<heap, mergeVars, envVars, mgrVars, introVars>>
    \/ ProxyGetattrLoad /\ UNCHANGED <<heap, mergeVars, envVars, mgrVars, introVars>>
    \/ (\E v \in Values : MemUpdate(v)) /\ UNCHANGED <<heap, mergeVars, envVars, mgrVars, introVars>>
    \/ ProxyProcStorageCall /\ UNCHANGED <<heap, mergeVars, envVars, mgrVars, introVars>>

SpecProxy == ProxyInit /\ [][ProxyNext]_vars

\* No proxy takes part in the storage model.
ProxyOff ==
    /\ pxProc = 0
    /\ pxStorage = None
    /\ memValue = NoValue
    /\ pxPc = "idle"
    /\ pxItem = None
    /\ pxEv = NoPxEv
    /\ pxSetup = FALSE
    /\ memLast = NoValue
    /\ pxUpdated = FALSE

\* ----------------------------------------------------------- raw mappings
\* A raw mapping is a dict object on the heap.  An item of a dict is a
\* scalar, a list (which no code here looks into) or a reference to another
\* dict object.  The content of a mapping, without the addresses, is a tree:
\* a function from keys to scalars, lists and [t |-> "dict", d |-> tree].
IntVal(n) == [t |-> "int", n |-> n]

StrVal(x) == [t |-> "str", s |-> x]

ListVal(n) == [t |-> "list", l |-> <<n>>]

Ref(a) == [t |-> "ref", a |-> a]

DictVal(tree) == [t |-> "dict", d |-> tree]

\* The keys and values of the mappings merged, as in test_deep_merge: the
\* values of dict_a (lo = 0) are not those of dict_b (lo = NumScalars), and
\* there is a list among them.
Keys == {"a", "b"}

Leaves(lo) == {IntVal(lo + n) : n \in 1..NumScalars} \cup {ListVal(lo + 1)}

Tree1(L) == UNION {[D -> L] : D \in SUBSET Keys}

Tree2(L) == UNION {[D -> L \cup {DictVal(t) : t \in Tree1(L)}] : D \in SUBSET Keys}

\* isinstance(x, dict)
IsDict(x) == x.t = "ref"

RECURSIVE View(_, _)
\* The content of the dict at address a.
View(h, a) ==
    [k \in DOMAIN h[a] |->
        IF IsDict(h[a][k]) THEN DictVal(View(h, h[a][k].a)) ELSE h[a][k]]

RECURSIVE Alloc(_, _)
RECURSIVE AllocItems(_, _, _, _)
\* A dict literal: the items of tree under the keys ks added to the dict acc.
AllocItems(h, tree, ks, acc) ==
    IF ks = {}
    THEN [h |-> h, o |-> acc]
    ELSE LET k == CHOOSE x \in ks : TRUE
         IN  IF tree[k].t = "dict"
             THEN LET c == Alloc(h, tree[k].d)
                  IN  AllocItems(c.h, tree, ks \ {k}, acc @@ (k :> Ref(c.a)))
             ELSE AllocItems(h, tree, ks \ {k}, acc @@ (k :> tree[k]))

\* A new dict object with the content tree: the heap after, and its address.
Alloc(h, tree) ==
    LET r == AllocItems(h, tree, DOMAIN tree, <<>>)
    IN  [h |-> Append(r.h, r.o), a |-> Len(r.h) + 1]

\* Mutant of deepcopy: no copy is made.
deepcopy_alias(h, a) == [h |-> h, a |-> a]

RECURSIVE deepcopy(_, _)
RECURSIVE CopyItems(_, _, _, _)
\* deepcopy of the items of the dict at a under the keys ks, added to acc.
CopyItems(h, a, ks, acc) ==
    IF ks = {}
    THEN [h |-> h, o |-> acc]
    ELSE LET k == CHOOSE x \in ks : TRUE
         IN  IF IsDict(h[a][k])
             THEN LET c == deepcopy(h, h[a][k].a)
                  IN  CopyItems(c.h, a, ks \ {k}, acc @@ (k :> Ref(c.a)))
             ELSE CopyItems(h, a, ks \ {k}, acc @@ (k :> h[a][k]))

\* copy.deepcopy(dict_a): new dict objects all the way down.
deepcopy(h, a) ==
    LET r == CopyItems(h, a, DOMAIN h[a], <<>>)
    IN  [h |-> Append(r.h, r.o), a |-> Len(r.h) + 1]

RECURSIVE MergeItemsShallow(_, _, _, _)
\* Mutant of MergeItems: a key of dict_b always replaces the key of result.
MergeItemsShallow(h, r, b, ks) ==
    IF ks = {}
    THEN h
    ELSE LET k == CHOOSE x \in ks : TRUE
         IN  MergeItemsShallow([h EXCEPT ![r] = (k :> h[b][k]) @@ @], r, b, ks \ {k})

RECURSIVE cross_merge_dicts(_, _, _)
RECURSIVE MergeItems(_, _, _, _)
\* cross_merge_dicts, lines 34-41: the loop over the items of dict_b (at b),
\* for the keys ks still to come, writing into result (at r).
MergeItems(h, r, b, ks) ==
    IF ks = {}
    THEN h
    ELSE LET k == CHOOSE x \in ks : TRUE
             val == h[b][k]
         IN  IF k \notin DOMAIN h[r]
             THEN MergeItems([h EXCEPT ![r] = (k :> val) @@ @], r, b, ks \ {k})
             ELSE IF IsDict(val) /\ IsDict(h[r][k])
                  THEN LET m == cross_merge_dicts(h, h[r][k].a, val.a)
                       IN  MergeItems([m.h EXCEPT ![r][k] = Ref(m.a)], r, b, ks \ {k})
                  ELSE MergeItems([h EXCEPT ![r][k] = val], r, b, ks \ {k})

\* utils.cross_merge_dicts(dict_a, dict_b): the heap after the call and the
\* address of the dict returned.
cross_merge_dicts(h, a, b) ==
    LET c == deepcopy(h, a)
    IN  [h |-> MergeItems(c.h, c.a, b, DOMAIN c.h[b]), a |-> c.a]

\* A call of cross_merge_dicts(dict_a, dict_b).
Merge ==
    /\ mBase # 0 /\ mRes = 0
    /\ LET m == cross_merge_dicts(heap, mBase, mOver)
       IN  heap' = m.h /\ mRes' = m.a
    /\ UNCHANGED <<storageVars, proxyVars, envVars, mgrVars, introVars>>
    /\ UNCHANGED <<mBase, mOver, heap0, mBase0, mOver0>>

\* No storage takes part: one storage state, never left.
StorageOff == StorageInit /\ value = [p \in Procs |-> model_validate([debug |-> FALSE])]

\* Two mappings on the heap, dict_a and dict_b; the caller may also pass one
\* mapping as both.
MergeInit ==
    /\ StorageOff
    /\ ProxyOff
    /\ EnvOff
    /\ MgrOff
    /\ IntroOff
    /\ \E ta \in Tree2(Leaves(0)), same \in BOOLEAN :
        \E tb \in (IF same THEN {ta} ELSE Tree2(Leaves(NumScalars))) :
            LET ha == Alloc(<<>>, ta)
                hb == IF same THEN ha ELSE Alloc(ha.h, tb)
            IN  /\ heap = hb.h
                /\ mBase = ha.a
                /\ mOver = hb.a
                /\ mBase0 = ta
                /\ mOver0 = tb
    /\ heap0 = heap
    /\ mRes = 0

MergeNext == Merge

SpecMerge == MergeInit /\ [][MergeNext]_vars

\* ------------------------------------------------- environment assignment
\* EnvironmentField, as far as assign_env_to_dict reads it.
EnvField(name, path) == [name |-> name, field_path |-> path]

\* create_env_list_from_cls(AppConfig) of tests/fixtures/config.py.
AppConfigEnvList ==
    << EnvField("DEBUG_OVERRIDE", <<"debug">>),
       EnvField("STRING", <<"string">>),
       EnvField("NESTED_FLAG", <<"nested", "flag">>) >>

\* create_env_list_from_cls(ComplexConfiguration) of tests/fixtures/config.py:
\* one entry per member of a union: nested is Union[int, str, Nested,
\* List[Nested]] and Nested.value is Union[int, float].
ComplexEnvList ==
    << EnvField("NESTED", <<"nested">>),
       EnvField("NESTED", <<"nested">>),
       EnvField("NESTED_VALUE", <<"nested", "value">>),
       EnvField("NESTED_VALUE", <<"nested", "value">>),
       EnvField("NESTED_VALUE", <<"nested", "value">>),
       EnvField("NESTED_VALUE", <<"nested", "value">>),
       EnvField("OPTIONAL", <<"optional">>),
       EnvField("ANNOTATED_VALUE", <<"annotated", "value">>),
       EnvField("ANNOTATED_VALUE", <<"annotated", "value">>) >>

\* The list of a field whose union names the nested type first:
\* nested: Union[Nested, str].
NestedFirstEnvList ==
    << EnvField("NESTED_VALUE", <<"nested", "value">>),
       EnvField("NESTED", <<"nested">>) >>

EnvLists == {AppConfigEnvList, ComplexEnvList, NestedFirstEnvList}

EnvNames(list) == {list[i].name : i \in DOMAIN list}

\* What a variable can hold: nothing, the empty string, a string of its own.
EnvStrings(name) == {None, "", "v_" \o name}

\* The mappings config can be when the call is made: the fresh mapping of a
\* loader, a mapping that holds a mapping under "nested", and one that holds
\* a scalar there.
EnvConfigs ==
    { <<>>,
      [nested |-> DictVal([other |-> IntVal(1)])],
      [nested |-> IntVal(1)] }

\* Mutant of AssignPath: the string is written under the last key of
\* field_path into config itself, no mapping is walked or created.
AssignPathShallow(h, cur, path, i, val) ==
    [h |-> [h EXCEPT ![cur] = (path[Len(path)] :> StrVal(val)) @@ @], sig |-> "ok"]

RECURSIVE AssignPath(_, _, _, _, _)
\* assign_env_to_dict, lines 129-137: the walk along field_path from its i-th
\* key, current_config_dict being the dict at cur.  A key that holds no dict
\* cannot be walked through: the next step raises TypeError.
AssignPath(h, cur, path, i, val) ==
    LET key == path[i]
    IN  IF i = Len(path)
        THEN [h |-> [h EXCEPT ![cur] = (key :> StrVal(val)) @@ @], sig |-> "ok"]
        ELSE LET h1 == IF key \notin DOMAIN h[cur]
                       THEN [Append(h, <<>>) EXCEPT ![cur] = (key :> Ref(Len(h) + 1)) @@ @]
                       ELSE h
             IN  IF IsDict(h1[cur][key])
                 THEN AssignPath(h1, h1[cur][key].a, path, i + 1, val)
                 ELSE [h |-> h1, sig |-> "TypeError"]

RECURSIVE AssignFrom(_, _, _, _)
\* assign_env_to_dict, lines 124-138: the loop over env_list from its i-th
\* field on; used is assigned_env_list so far.
AssignFrom(h, c, i, used) ==
    IF i > Len(eList)
    THEN [h |-> h, used |-> used, sig |-> "ok"]
    ELSE LET env == eList[i]
             val == environ[env.name]
         IN  IF val = None
             THEN AssignFrom(h, c, i + 1, used)
             ELSE LET r == AssignPath(h, c, env.field_path, 1, val)
                  IN  IF r.sig = "ok"
                      THEN AssignFrom(r.h, c, i + 1, Append(used, env.name))
                      ELSE [h |-> r.h, used |-> <<>>, sig |-> r.sig]

\* env.assign_env_to_dict(config, env_list)
assign_env_to_dict(h, c) == AssignFrom(h, c, 1, <<>>)

\* A call of assign_env_to_dict.
AssignEnv ==
    /\ eConfig # 0 /\ eSig = "none"
    /\ LET r == assign_env_to_dict(heap, eConfig)
       IN  /\ heap' = r.h
           /\ eUsed' = r.used
           /\ eSig' = r.sig
    /\ UNCHANGED <<storageVars, proxyVars, mergeVars, mgrVars, introVars>>
    /\ UNCHANGED <<environ, eList, eConfig, eConfig0>>

\* A list of fields, an environment for their variables, and the mapping the
\* fields are assigned into.
EnvInit ==
    /\ StorageOff
    /\ ProxyOff
    /\ MgrOff
    /\ IntroOff
    /\ mBase = 0 /\ mOver = 0 /\ mRes = 0
    /\ heap0 = <<>> /\ mBase0 = <<>> /\ mOver0 = <<>>
    /\ eList \in EnvLists
    /\ environ \in [EnvNames(eList) -> UNION {EnvStrings(n) : n \in EnvNames(eList)}]
    /\ \A n \in EnvNames(eList) : environ[n] \in EnvStrings(n)
    /\ \E tree \in EnvConfigs :
          /\ heap = Alloc(<<>>, tree).h
          /\ eConfig = Alloc(<<>>, tree).a
          /\ eConfig0 = tree
    /\ eUsed = <<>>
    /\ eSig = "none"

EnvNext == AssignEnv

SpecEnv == EnvInit /\ [][EnvNext]_vars

\* ------------------------------------------- a write into a merged mapping
\* The paths of a later write into the mapping cross_merge_dicts returned.
WritePaths == {<<k>> : k \in Keys} \cup {<<k1, k2>> : k1 \in Keys, k2 \in Keys}

\* An assignment in place into the merged mapping, as assign_env_to_dict
\* makes it: the string at the path, intermediate mappings created.
WriteResult ==
    /\ mRes # 0
    /\ \E path \in WritePaths : heap' = AssignPath(heap, mRes, path, 1, "written").h
    /\ UNCHANGED <<storageVars, proxyVars, envVars, mgrVars, introVars>>
    /\ UNCHANGED <<mBase, mOver, mRes, heap0, mBase0, mOver0>>

\* Two mappings as in test_deep_merge, with one scalar each to tell them
\* apart; the second is merged over the first, then the result is written.
MergeWriteInit ==
    /\ StorageOff
    /\ ProxyOff
    /\ EnvOff
    /\ MgrOff
    /\ IntroOff
    /\ \E ta \in Tree2({IntVal(1)}), tb \in Tree2({IntVal(2)}) :
          LET ha == Alloc(<<>>, ta)
              hb == Alloc(ha.h, tb)
          IN  /\ heap = hb.h
              /\ mBase = ha.a
              /\ mOver = hb.a
              /\ mBase0 = ta
              /\ mOver0 = tb
    /\ heap0 = heap
    /\ mRes = 0

MergeWriteNext ==
    \/ Merge
    \/ WriteResult

SpecMergeWrite == MergeWriteInit /\ [][MergeWriteNext]_vars

\* ------------------------------------------------ the configuration manager
\* ConfigManager(Config) with Config as in test/test_config.py, cut down to
\*     class Config(base_cls):
\*         class NestedConfig(base_cls):
\*             nested_field: str
\*         bool_field: bool
\*         nested_config: NestedConfig
\*         nested_config_optional: typing.Optional[NestedConfig]
\* and base_cls one of InMemoryConfig and MultiprocessingConfig.  No project
\* metadata is given, so the names of the variables carry no prefix.
BoolVal(b) == [t |-> "bool", b |-> b]

NoneVal == [t |-> "none"]

ObjRef(a) == [t |-> "obj", o |-> a]

PathVal(path) == [t |-> "path", p |-> path]

ErrorVal(e) == [t |-> "error", e |-> e]

ConfigVariants == {"InMemoryConfig", "MultiprocessingConfig"}

\* Config.__qstd_nested_configuration_fields__
nested_configuration_fields == {"nested_config", "nested_config_optional"}

\* ConfigProperty(key, parts): env is the upper-case names joined by "_".
ConfigProperty(env, path) == [env |-> env, path |-> path]

\* Config.__qstd_configuration_properties__: the fields of a nested class are
\* listed under its name, an Optional[...] field is one property.
configuration_properties ==
    << ConfigProperty("BOOL_FIELD", <<"bool_field">>),
       ConfigProperty("NESTED_CONFIG_NESTED_FIELD", <<"nested_config", "nested_field">>),
       ConfigProperty("NESTED_CONFIG_OPTIONAL", <<"nested_config_optional">>) >>

NestedRaw(x) == DictVal([nested_field |-> StrVal(x)])

\* The mappings a caller passes to load_configuration; <<>> is None or {}.
Initials ==
    { <<>>,
      [bool_field |-> BoolVal(FALSE), nested_config |-> NestedRaw("init"),
       nested_config_optional |-> NoneVal],
      [bool_field |-> BoolVal(FALSE), nested_config |-> NestedRaw("init"),
       nested_config_optional |-> NestedRaw("init")] }

\* The contents of two configuration files, as yaml.safe_load returns them.
FileA == [bool_field |-> BoolVal(TRUE), nested_config |-> NestedRaw("a")]

FileB == [bool_field |-> BoolVal(FALSE), nested_config_optional |-> NestedRaw("b")]

\* config_paths, each path standing for the content of its file.
FileLists == {<<>>, <<FileA>>, <<FileB>>, <<FileA, FileB>>, <<FileB, FileA>>}

\* os.environ for the variables of the properties: none of them set, one of
\* the first two set, or all three.
Environs ==
    { [BOOL_FIELD |-> None, NESTED_CONFIG_NESTED_FIELD |-> None,
       NESTED_CONFIG_OPTIONAL |-> None],
      [BOOL_FIELD |-> "true", NESTED_CONFIG_NESTED_FIELD |-> None,
       NESTED_CONFIG_OPTIONAL |-> None],
      [BOOL_FIELD |-> None, NESTED_CONFIG_NESTED_FIELD |-> "env",
       NESTED_CONFIG_OPTIONAL |-> None],
      [BOOL_FIELD |-> "true", NESTED_CONFIG_NESTED_FIELD |-> "env",
       NESTED_CONFIG_OPTIONAL |-> "env"] }

\* pre_validation_hook: none, or a hook that sets bool_field.
Hooks == {None, "set_bool_field"}

pre_validation_hook(hook, tree) ==
    IF hook = None THEN tree ELSE ("bool_field" :> BoolVal(TRUE)) @@ tree

LoadInputs == [initial : Initials, files : FileLists, env : Environs, hook : Hooks]

RECURSIVE ManagerAssignPath(_, _, _, _)
\* ConfigManager.assign_env_to_dict, lines 150-158: the walk along
\* config_property.path from its i-th key.  last_index is len(path), which no
\* index equals: every key takes the else branch, the last one too.
ManagerAssignPath(h, cur, path, i) ==
    IF i > Len(path)
    THEN [h |-> h, sig |-> "ok"]
    ELSE LET key == path[i]
             h1 == IF key \notin DOMAIN h[cur]
                   THEN [Append(h, <<>>) EXCEPT ![cur] = (key :> Ref(Len(h) + 1)) @@ @]
                   ELSE h
         IN  IF i = Len(path)
             THEN [h |-> h1, sig |-> "ok"]
             ELSE IF IsDict(h1[cur][key])
                  THEN ManagerAssignPath(h1, h1[cur][key].a, path, i + 1)
                  ELSE [h |-> h1, sig |-> "TypeError"]

RECURSIVE ManagerAssignFrom(_, _, _, _, _)
\* ConfigManager.assign_env_to_dict, lines 143-160: the loop over the
\* properties from the i-th on.
ManagerAssignFrom(h, c, env, i, used) ==
    IF i > Len(configuration_properties)
    THEN [h |-> h, used |-> used, sig |-> "ok"]
    ELSE LET config_property == configuration_properties[i]
         IN  IF env[config_property.env] = None
             THEN ManagerAssignFrom(h, c, env, i + 1, used)
             ELSE LET r == ManagerAssignPath(h, c, config_property.path, 1)
                  IN  IF r.sig = "ok"
                      THEN ManagerAssignFrom(r.h, c, env, i + 1,
                                             Append(used, config_property.env))
                      ELSE [h |-> r.h, used |-> used, sig |-> r.sig]

RECURSIVE MergeFiles(_, _, _, _)
\* load_configuration, lines 115-118: the files from the i-th on merged over
\* configuration (at a).
MergeFiles(h, a, files, i) ==
    IF i > Len(files)
    THEN [h |-> h, a |-> a]
    ELSE LET override_config_dict == Alloc(h, files[i])
             m == cross_merge_dicts(override_config_dict.h, a, override_config_dict.a)
         IN  MergeFiles(m.h, m.a, files, i + 1)

\* load_configuration, lines 111-121: the mapping built from the sources.
RawMapping(in) ==
    LET configuration == Alloc(<<>>, in.initial)
        merged == MergeFiles(configuration.h, configuration.a, in.files, 1)
        assigned == ManagerAssignFrom(merged.h, merged.a, in.env, 1, <<>>)
        pre == View(assigned.h, merged.a)
    IN  [sig |-> assigned.sig,
         used |-> assigned.used,
         pre |-> pre,
         raw |-> pre_validation_hook(in.hook, pre)]

\* The validator of bool_field: a bool, or one of the strings read as a bool.
ValidBool(x) ==
    \/ x.t = "bool"
    \/ x.t = "str" /\ x.s \in {"true", "false"}

ParseBool(x) == IF x.t = "bool" THEN x ELSE BoolVal(x.s = "true")

\* The validator of NestedConfig: a mapping that has a string as nested_field.
ValidNested(x) ==
    /\ x.t = "dict"
    /\ "nested_field" \in DOMAIN x.d
    /\ x.d["nested_field"].t = "str"

DumpNested(x) == DictVal([nested_field |-> x.d["nested_field"]])

\* Config.__qstd_pydantic_cls__.model_validate(configuration), then
\* model_dump: every field is required, keys that are no fields are dropped.
ConfigValidator(tree) ==
    IF /\ {"bool_field", "nested_config", "nested_config_optional"} \subseteq DOMAIN tree
       /\ ValidBool(tree["bool_field"])
       /\ ValidNested(tree["nested_config"])
       /\ \/ tree["nested_config_optional"].t = "none"
          \/ ValidNested(tree["nested_config_optional"])
    THEN [ok |-> TRUE,
          v |-> [bool_field |-> ParseBool(tree["bool_field"]),
                 nested_config |-> DumpNested(tree["nested_config"]),
                 nested_config_optional |->
                     IF tree["nested_config_optional"].t = "none"
                     THEN NoneVal
                     ELSE DumpNested(tree["nested_config_optional"])]]
    ELSE [ok |-> FALSE, v |-> <<>>]

\* isinstance(valid_value, BaseModel), on the dumped data
IsModel(x) == x.t = "dict"

\* isinstance(nested_configuration, BaseConfig)
IsBaseConfig(x) == x.t = "obj"

RECURSIVE InMemoryInit(_, _)
RECURSIVE InMemoryInitNested(_, _, _, _)
\* InMemoryConfig.__init__, lines 284-286: a configuration object for each
\* nested field (of the names ks) that is not None, put into valid_dict.
InMemoryInitNested(os, valid, ks, valid_dict) ==
    IF ks = {}
    THEN [os |-> os, valid_dict |-> valid_dict]
    ELSE LET name == CHOOSE x \in ks : TRUE
         IN  IF IsModel(valid[name])
             THEN LET child == InMemoryInit(os, valid[name].d)
                  IN  InMemoryInitNested(child.os, valid, ks \ {name},
                                         (name :> ObjRef(child.a)) @@ valid_dict)
             ELSE InMemoryInitNested(os, valid, ks \ {name}, valid_dict)

\* InMemoryConfig(valid_data): the objects after, and the address of the new
\* object, whose attributes are the items of valid_dict.
InMemoryInit(os, valid) ==
    LET r == InMemoryInitNested(os, valid, DOMAIN valid \cap nested_configuration_fields, valid)
    IN  [os |-> Append(r.os, r.valid_dict), a |-> Len(r.os) + 1]

RECURSIVE InMemoryUpdate(_, _, _)
RECURSIVE InMemoryUpdateNested(_, _, _, _, _)
\* InMemoryConfig.__update_configuration__, lines 321-330: the loop over the
\* nested fields ks of the object at a.  A nested object that is there is
\* updated, and valid_dict keeps the dumped dict under its name.
InMemoryUpdateNested(os, a, valid, ks, valid_dict) ==
    IF ks = {}
    THEN [os |-> os, valid_dict |-> valid_dict]
    ELSE LET name == CHOOSE x \in ks : TRUE
             nested_configuration == os[a][name]
         IN  IF IsBaseConfig(nested_configuration) /\ IsModel(valid[name])
             THEN InMemoryUpdateNested(InMemoryUpdate(os, nested_configuration.o, valid[name].d),
                                       a, valid, ks \ {name}, valid_dict)
             ELSE IF IsModel(valid[name])
                  THEN LET child == InMemoryInit(os, valid[name].d)
                       IN  InMemoryUpdateNested(child.os, a, valid, ks \ {name},
                                                (name :> ObjRef(child.a)) @@ valid_dict)
                  ELSE InMemoryUpdateNested(os, a, valid, ks \ {name}, valid_dict)

\* InMemoryConfig.__update_configuration__(valid_data) of the object at a:
\* lines 331-332 set every item of valid_dict as an attribute.
InMemoryUpdate(os, a, valid) ==
    LET r == InMemoryUpdateNested(os, a, valid,
                                  DOMAIN valid \cap nested_configuration_fields, valid)
    IN  [r.os EXCEPT ![a] = r.valid_dict @@ @]

RECURSIVE MultiprocessingInit(_, _, _, _)
RECURSIVE MultiprocessingInitNested(_, _, _, _, _)
\* MultiprocessingConfig.__init__, lines 376-380: for each nested field (of
\* the names ks) the child mapped with the access path of the field.
MultiprocessingInitNested(os, valid, path, ks, attrs) ==
    IF ks = {}
    THEN [os |-> os, attrs |-> attrs]
    ELSE LET name == CHOOSE x \in ks : TRUE
         IN  IF IsModel(valid[name])
             THEN LET child == MultiprocessingInit(os, valid[name].d, TRUE, Append(path, name))
                  IN  MultiprocessingInitNested(child.os, valid, path, ks \ {name},
                                                (name :> ObjRef(child.a)) @@ attrs)
             ELSE MultiprocessingInitNested(os, valid, path, ks \ {name},
                                            (name :> valid[name]) @@ attrs)

\* MultiprocessingConfig(valid_data, is_subclass, field_access_path): the
\* objects after, and the address of the new object.  The update of the
\* shared dict, line 374, is in config_factory.
MultiprocessingInit(os, valid, is_subclass, path) ==
    LET r == MultiprocessingInitNested(os, valid, path,
                                       DOMAIN valid \cap nested_configuration_fields,
                                       [_is_subclass |-> BoolVal(is_subclass),
                                        _field_access_path |-> PathVal(path)])
    IN  [os |-> Append(r.os, r.attrs), a |-> Len(r.os) + 1]

RECURSIVE MultiprocessingUpdate(_, _, _)
RECURSIVE MultiprocessingUpdateNested(_, _, _, _)
\* MultiprocessingConfig.__update_configuration__, lines 452-461: the loop
\* over the nested fields ks of the object at a.  A child made here gets
\* the access path of the object at a, line 460.
MultiprocessingUpdateNested(os, a, valid, ks) ==
    IF ks = {}
    THEN os
    ELSE LET name == CHOOSE x \in ks : TRUE
             nested_configuration == os[a][name]
         IN  IF IsBaseConfig(nested_configuration) /\ IsModel(valid[name])
             THEN MultiprocessingUpdateNested(
                      MultiprocessingUpdate(os, nested_configuration.o, valid[name].d),
                      a, valid, ks \ {name})
             ELSE IF IsModel(valid[name])
                  THEN LET child == MultiprocessingInit(os, valid[name].d, TRUE,
                                                        os[a]["_field_access_path"].p)
                       IN  MultiprocessingUpdateNested(
                               [child.os EXCEPT ![a] = (name :> ObjRef(child.a)) @@ @],
                               a, valid, ks \ {name})
                  ELSE MultiprocessingUpdateNested(
                           [os EXCEPT ![a] = (name :> valid[name]) @@ @],
                           a, valid, ks \ {name})

\* MultiprocessingConfig.__update_configuration__(valid_data) of the object
\* at a; the update of the shared dict, line 451, is in update_configuration.
MultiprocessingUpdate(os, a, valid) ==
    MultiprocessingUpdateNested(os, a, valid, DOMAIN valid \cap nested_configuration_fields)

\* ConfigManager.config_factory(valid_configuration): what the manager holds
\* after.  The shared dict is a new one, updated with the dumped data.
config_factory(valid) ==
    IF mVariant = "InMemoryConfig"
    THEN LET n == InMemoryInit(objs, valid)
         IN  [objs |-> n.os, d |-> mDict, config |-> n.a]
    ELSE LET n == MultiprocessingInit(objs, valid, FALSE, <<>>)
         IN  [objs |-> n.os, d |-> valid, config |-> n.a]

\* self._config.__update_configuration__(valid_configuration)
update_configuration(valid) ==
    IF mVariant = "InMemoryConfig"
    THEN [objs |-> InMemoryUpdate(objs, mConfig, valid), d |-> mDict, config |-> mConfig]
    ELSE [objs |-> MultiprocessingUpdate(objs, mConfig, valid),
          d |-> valid @@ mDict, config |-> mConfig]

\* Mutant of Held: a failed validation drops what the manager holds.
HeldDropped(v) ==
    IF ~v.ok
    THEN [objs |-> objs, d |-> <<>>, config |-> 0]
    ELSE IF mConfig = 0 THEN config_factory(v.v) ELSE update_configuration(v.v)

\* load_configuration, lines 122-127: what the manager holds after the
\* validation result v.  model_validate raises before anything is assigned.
Held(v) ==
    IF ~v.ok
    THEN [objs |-> objs, d |-> mDict, config |-> mConfig]
    ELSE IF mConfig = 0 THEN config_factory(v.v) ELSE update_configuration(v.v)

\* The configuration object under the attribute name of the object at a, 0
\* when there is none.
NestedObject(os, a, name) == IF IsBaseConfig(os[a][name]) THEN os[a][name].o ELSE 0

RECURSIVE SharedAt(_, _, _)
\* MultiprocessingConfig.__getattr__, lines 399-403: the walk through the
\* shared dict along _field_access_path from its i-th key.
SharedAt(configuration, path, i) ==
    IF i > Len(path)
    THEN configuration
    ELSE IF configuration.t # "dict"
         THEN ErrorVal("TypeError")
         ELSE IF path[i] \notin DOMAIN configuration.d
              THEN ErrorVal("AttributeError")
              ELSE SharedAt(configuration.d[path[i]], path, i + 1)

\* getattr(obj, name) for the configuration object at a.
GetConfigAttr(os, d, a, name) ==
    IF name \in DOMAIN os[a]
    THEN os[a][name]
    ELSE IF "_field_access_path" \notin DOMAIN os[a]
         THEN ErrorVal("AttributeError")
         ELSE LET configuration == SharedAt(DictVal(d), os[a]["_field_access_path"].p, 1)
              IN  IF configuration.t = "error"
                  THEN configuration
                  ELSE IF configuration.t # "dict"
                       THEN ErrorVal("TypeError")
                       ELSE IF name \in DOMAIN configuration.d
                            THEN configuration.d[name]
                            ELSE ErrorVal("AttributeError")

\* ConfigManager.load_configuration(configuration) with the files and the
\* environment of in: how the call ends, and what it leaves behind.
load_configuration(in) ==
    LET m == RawMapping(in)
        v == IF m.sig = "ok" THEN ConfigValidator(m.raw) ELSE [ok |-> FALSE, v |-> <<>>]
        held == Held(v)
    IN  [sig |-> IF m.sig # "ok" THEN m.sig
                 ELSE IF v.ok THEN "ok" ELSE "ValidationError",
         used_env |-> IF m.sig = "ok" THEN m.used ELSE mUsedEnv,
         pre |-> m.pre,
         raw |-> m.raw,
         valid |-> v,
         held |-> held]

\* A call of load_configuration.
Load(in) ==
    /\ mLoads < MaxLoads
    /\ \E r \in {load_configuration(in)} :
          /\ mSig' = r.sig
          /\ mUsedEnv' = r.used_env
          /\ mPreHook' = r.pre
          /\ mRaw' = r.raw
          /\ objs' = r.held.objs
          /\ mDict' = r.held.d
          /\ mConfig' = r.held.config
          /\ mValid' = IF r.valid.ok THEN r.valid.v ELSE mValid
          /\ mFirst' = IF r.valid.ok /\ mConfig = 0
                       THEN [root |-> r.held.config,
                             nested_config |->
                                 NestedObject(r.held.objs, r.held.config, "nested_config"),
                             nested_config_optional |->
                                 NestedObject(r.held.objs, r.held.config,
                                              "nested_config_optional")]
                       ELSE mFirst
    /\ mIn' = in
    /\ mLoads' = mLoads + 1
    /\ UNCHANGED <<mVariant, storageVars, proxyVars, heap, mergeVars, envVars, introVars>>

\* A manager for one of the two base classes; nothing is loaded yet.
MgrInit ==
    /\ StorageOff
    /\ ProxyOff
    /\ MergeOff
    /\ EnvOff
    /\ IntroOff
    /\ mVariant \in ConfigVariants
    /\ mConfig = 0
    /\ objs = <<>>
    /\ mDict = <<>>
    /\ mUsedEnv = <<>>
    /\ mSig = "none"
    /\ mLoads = 0
    /\ mIn = <<>>
    /\ mPreHook = <<>>
    /\ mRaw = <<>>
    /\ mValid = <<>>
    /\ mFirst = <<>>

MgrNext == \E in \in LoadInputs : Load(in)

SpecManager == MgrInit /\ [][MgrNext]_vars

\* ------------------------------------------------- environment variable names
\* Names are sequences of characters.  str.upper on the ASCII letters.
Lowers == <<"a", "b", "c", "d", "e", "f", "g", "h", "i", "j", "k", "l", "m",
            "n", "o", "p", "q", "r", "s", "t", "u", "v", "w", "x", "y", "z">>

Uppers == <<"A", "B", "C", "D", "E", "F", "G", "H", "I", "J", "K", "L", "M",
            "N", "O", "P", "Q", "R", "S", "T", "U", "V", "W", "X", "Y", "Z">>

Upper(c) ==
    IF \E i \in DOMAIN Lowers : Lowers[i] = c
    THEN Uppers[CHOOSE i \in DOMAIN Lowers : Lowers[i] = c]
    ELSE c

\* The characters the pattern '[^a-zA-Z0-9]' does not match.
AlNum == {Lowers[i] : i \in DOMAIN Lowers} \cup {Uppers[i] : i \in DOMAIN Uppers}
         \cup {"0", "1", "2", "3", "4", "5", "6", "7", "8", "9"}

\* utils.unify_name: re.sub('[^a-zA-Z0-9]', '_', name.upper()); every
\* character that is matched is replaced on its own.
unify_name(name) ==
    [i \in DOMAIN name |-> IF Upper(name[i]) \in AlNum THEN Upper(name[i]) ELSE "_"]

\* The characters the names handed to unify_name are made of.
NameChars == {"h", "W", "1", "%", "_"}

Names == UNION {[1..n -> NameChars] : n \in 0..MaxNameLen}

\* A call of unify_name.
Unify ==
    /\ iPc = "name"
    /\ uOut' = unify_name(uName)
    /\ iPc' = "unified"
    /\ UNCHANGED <<uName, lCls, lPrefix, lList, cpIn, cpPaths>>
    /\ UNCHANGED <<storageVars, proxyVars, heap, mergeVars, envVars, mgrVars>>

NameInit ==
    /\ StorageOff
    /\ ProxyOff
    /\ MergeOff
    /\ EnvOff
    /\ MgrOff
    /\ iPc = "name"
    /\ uName \in Names
    /\ uOut = <<>>
    /\ lCls = <<>>
    /\ lPrefix = <<>>
    /\ lList = <<>>
    /\ cpIn = <<>>
    /\ cpPaths = <<>>

NameNext == Unify

SpecName == NameInit /\ [][NameNext]_vars

\* ------------------------------------------------- the environment field list
\* Annotations: a class without origin (int, str, bool, float, NoneType), a
\* configuration class, Union[...], List[...].  Annotated[X, ...] is X by the time pydantic stores it in
\* model_fields, and Optional[X] is Union[X, None].
AtomT(k) == [k |-> k]

ModelT(cls) == [k |-> "model", cls |-> cls]

UnionT(args) == [k |-> "union", args |-> args]

ListT(item) == [k |-> "list", args |-> <<item>>]

\* utils.is_optional_type
is_optional_type(annotation) ==
    /\ annotation.k = "union"
    /\ Len(annotation.args) = 2
    /\ \E i \in 1..2 : annotation.args[i] = AtomT("NoneType")

\* utils.unwrap_types: the members without origin, depth first.
RECURSIVE unwrap_types(_)
RECURSIVE UnwrapArgs(_, _)
UnwrapArgs(args, i) ==
    IF i > Len(args) THEN <<>>
    ELSE unwrap_types(args[i]) \o UnwrapArgs(args, i + 1)

unwrap_types(annotation) ==
    IF annotation.k \notin {"union", "list"} THEN <<annotation>>
    ELSE UnwrapArgs(annotation.args, 1)

\* utils.is_model_type
is_model_type(type) == type.k = "model"

\* pydantic FieldInfo: the attributes the walk reads; <<>> is None for alias
\* and title, json_schema_extra is <<>> or holds the string under 'env'.
FieldInfo(name, annotation, env) ==
    [name |-> name, alias |-> <<>>, title |-> <<>>, annotation |-> annotation,
     json_schema_extra |-> env]

\* tests/fixtures/config.py
NestedConfigFields == <<FieldInfo(<<"f", "l", "a", "g">>, AtomT("bool"), <<>>)>>

NestedFields == <<FieldInfo(<<"v", "a", "l", "u", "e">>, UnionT(<<AtomT("int"), AtomT("float")>>), <<>>)>>

model_fields(cls) ==
    IF cls = "NestedConfig" THEN NestedConfigFields ELSE NestedFields

\* The fields a configuration class is declared with: those of AppConfig and
\* of ComplexConfiguration.
FieldPool ==
    { FieldInfo(<<"d", "e", "b", "u", "g">>, AtomT("bool"), <<<<"D", "E", "B", "U", "G", "_", "O", "V", "E", "R", "R", "I", "D", "E">>>>),
      FieldInfo(<<"s", "t", "r", "i", "n", "g">>, AtomT("str"), <<>>),
      FieldInfo(<<"n", "e", "s", "t", "e", "d">>, ModelT("NestedConfig"), <<>>),
      FieldInfo(<<"n", "e", "s", "t", "e", "d">>,
                UnionT(<<AtomT("int"), AtomT("str"), ModelT("Nested"), ListT(ModelT("Nested"))>>),
                <<>>),
      FieldInfo(<<"o", "p", "t", "i", "o", "n", "a", "l">>, UnionT(<<ModelT("Nested"), AtomT("NoneType")>>), <<>>),
      FieldInfo(<<"a", "n", "n", "o", "t", "a", "t", "e", "d">>, ModelT("Nested"), <<>>) }

AppConfig ==
    << FieldInfo(<<"d", "e", "b", "u", "g">>, AtomT("bool"), <<<<"D", "E", "B", "U", "G", "_", "O", "V", "E", "R", "R", "I", "D", "E">>>>),
       FieldInfo(<<"s", "t", "r", "i", "n", "g">>, AtomT("str"), <<>>),
       FieldInfo(<<"n", "e", "s", "t", "e", "d">>, ModelT("NestedConfig"), <<>>) >>

ComplexConfiguration ==
    << FieldInfo(<<"n", "e", "s", "t", "e", "d">>,
                 UnionT(<<AtomT("int"), AtomT("str"), ModelT("Nested"), ListT(ModelT("Nested"))>>),
                 <<>>),
       FieldInfo(<<"o", "p", "t", "i", "o", "n", "a", "l">>, UnionT(<<ModelT("Nested"), AtomT("NoneType")>>), <<>>),
       FieldInfo(<<"a", "n", "n", "o", "t", "a", "t", "e", "d">>, ModelT("Nested"), <<>>) >>

\* Classes of up to MaxFields fields, no name declared twice.
ConfigClasses ==
    { c \in UNION {[1..n -> FieldPool] : n \in 1..MaxFields} :
        \A i, j \in DOMAIN c : c[i].name = c[j].name => i = j }

\* project_name: None, 'project name', 'app'.
Prefixes == {<<>>, <<"p", "r", "o", "j", "e", "c", "t", " ", "n", "a", "m", "e">>, <<"a", "p", "p">>}

\* a or b, on strings
Or(a, b) == IF a # <<>> THEN a ELSE b

\* sep.join(list)
RECURSIVE Join(_, _)
Join(sep, list) ==
    IF list = <<>> THEN <<>>
    ELSE IF Len(list) = 1 THEN list[1]
    ELSE list[1] \o sep \o Join(sep, Tail(list))

\* env.EnvironmentField; default, description and examples are copied from
\* the field and left out.
EnvironmentField(title, name, field_path, type) ==
    [title |-> title, name |-> name, field_path |-> field_path, type |-> type]

\* _add_env with the override ignored.
add_envNoOverride(name, field, type, result, current_env_name_path, current_field_path) ==
    Append(result,
           EnvironmentField(
               Or(field.title, Or(field.alias, name)),
               Join(<<"_">>, [i \in DOMAIN current_env_name_path |->
                                  unify_name(current_env_name_path[i])]),
               current_field_path, type))

\* env._add_env: the list with the entry appended.
add_env(name, field, type, result, current_env_name_path, current_field_path) ==
    LET jse == field.json_schema_extra
        env_name ==
            IF jse # <<>> THEN jse[1]
            ELSE Join(<<"_">>, [i \in DOMAIN current_env_name_path |->
                                    unify_name(current_env_name_path[i])])
    IN  Append(result,
               EnvironmentField(Or(field.title, Or(field.alias, name)), env_name,
                                current_field_path, type))

\* env._fill_env_list: the loop over the fields from the i-th on, and for
\* one field the loop over its unwrapped types from the j-th on.
RECURSIVE fill_env_list(_, _, _, _, _)
RECURSIVE FillTypes(_, _, _, _, _, _)
FillTypes(field, types, j, result, current_field_path, current_env_name_path) ==
    IF j > Len(types) THEN result
    ELSE FillTypes(field, types, j + 1,
                   IF is_model_type(types[j])
                   THEN fill_env_list(model_fields(types[j].cls), 1, result,
                                      current_field_path, current_env_name_path)
                   ELSE add_env(field.name, field, types[j], result,
                                current_env_name_path, current_field_path),
                   current_field_path, current_env_name_path)

fill_env_list(fields, i, result, field_path, env_name_path) ==
    IF i > Len(fields) THEN result
    ELSE LET field == fields[i]
             current_field_path == Append(field_path, Or(field.alias, field.name))
             current_env_name_path ==
                 Append(env_name_path, Or(field.alias, field.name))
         IN  fill_env_list(
                 fields, i + 1,
                 IF is_optional_type(field.annotation)
                 THEN add_env(field.name, field, field.annotation, result,
                              current_env_name_path, current_field_path)
                 ELSE FillTypes(field, unwrap_types(field.annotation), 1, result,
                                current_field_path, current_env_name_path),
                 field_path, env_name_path)

\* env.create_env_list_from_cls
create_env_list_from_cls(config_cls, project_name) ==
    fill_env_list(config_cls, 1, <<>>, <<>>,
                  IF project_name # <<>> THEN <<project_name>> ELSE <<>>)

\* A call of create_env_list_from_cls.
CreateEnvList ==
    /\ iPc = "cls"
    /\ lList' = create_env_list_from_cls(lCls, lPrefix)
    /\ iPc' = "listed"
    /\ UNCHANGED <<uName, uOut, lCls, lPrefix, cpIn, cpPaths>>
    /\ UNCHANGED <<storageVars, proxyVars, heap, mergeVars, envVars, mgrVars>>

EnvListInit ==
    /\ StorageOff
    /\ ProxyOff
    /\ MergeOff
    /\ EnvOff
    /\ MgrOff
    /\ iPc = "cls"
    /\ uName = <<>>
    /\ uOut = <<>>
    /\ lCls \in ConfigClasses
    /\ lPrefix \in Prefixes
    /\ lList = <<>>
    /\ cpIn = <<>>
    /\ cpPaths = <<>>

EnvListNext == CreateEnvList

SpecEnvList == EnvListInit /\ [][EnvListNext]_vars

\* ------------------------------------------- the configuration file paths
\* Paths and the strings that hold them are sequences of characters.
\* str.split(sep): the pieces between the separators, from the i-th
\* character on, cur being the piece read so far.
RECURSIVE SplitFrom(_, _, _, _)
SplitFrom(str, sep, i, cur) ==
    IF i > Len(str) THEN <<cur>>
    ELSE IF str[i] = sep THEN <<cur>> \o SplitFrom(str, sep, i + 1, <<>>)
    ELSE SplitFrom(str, sep, i + 1, Append(cur, str[i]))

Split(str, sep) == SplitFrom(str, sep, 1, <<>>)

\* os.path.join(a, b) for a directory a that does not end in '/'.
PathJoin(a, b) ==
    IF b # <<>> /\ b[1] = "/" THEN b ELSE a \o <<"/">> \o b

\* os.path.abspath of an absolute path: the empty and the '.' segments are
\* dropped and a '..' segment takes the segment before it along.
RECURSIVE NormSegments(_, _, _)
NormSegments(segments, i, kept) ==
    IF i > Len(segments) THEN kept
    ELSE NormSegments(
             segments, i + 1,
             IF segments[i] \in {<<>>, <<".">>} THEN kept
             ELSE IF segments[i] = <<".", ".">>
                  THEN (IF kept = <<>> THEN kept ELSE SubSeq(kept, 1, Len(kept) - 1))
                  ELSE Append(kept, segments[i]))

AbsPath(path) == <<"/">> \o Join(<<"/">>, NormSegments(Split(path, "/"), 1, <<>>))

\* ConfigManager.abs_config_path
abs_config_path(default_config_dir, path) ==
    IF ~(path # <<>> /\ path[1] = "/")
    THEN AbsPath(PathJoin(default_config_dir, path))
    ELSE path

\* os.environ.get(name); <<>> for None.
EnvironGet(os_environ, name) ==
    IF name \in DOMAIN os_environ THEN os_environ[name] ELSE <<>>

\* ConfigManager.get_override_config_paths_from_env
manager_paths_from_env(in) ==
    LET config_env == IF in.project_name # <<>>
                      THEN unify_name(in.project_name) \o <<"_", "C", "O", "N", "F", "I", "G">>
                      ELSE <<"C", "O", "N", "F", "I", "G">>
        env_paths == EnvironGet(in.environ, config_env)
        pieces == Split(env_paths, ";")
    IN  IF env_paths # <<>>
        THEN [i \in DOMAIN pieces |-> abs_config_path(in.default_config_dir, pieces[i])]
        ELSE <<>>

\* ConfigManager.get_override_config_paths_from_args; argv_config is what
\* parse_known_args finds for --config/-c, <<>> for None.
manager_paths_from_args(in) ==
    LET pieces == Split(in.argv_config, ";")
    IN  IF in.argv_config # <<>>
        THEN [i \in DOMAIN pieces |-> abs_config_path(in.default_config_dir, pieces[i])]
        ELSE <<>>

\* ConfigManager.__init__, lines 62-71: self.config_paths is the list
\* passed in, when that is not empty, and the resolved paths are appended to
\* that very list.
manager_config_paths(in) ==
    LET given == in.config_paths
        explicit == IF given # <<>>
                    THEN given \o [i \in DOMAIN given |->
                                       abs_config_path(in.default_config_dir, given[i])]
                    ELSE <<>>
        with_env == IF in.parse_config_paths_from_env
                    THEN explicit \o manager_paths_from_env(in)
                    ELSE explicit
    IN  IF in.parse_config_paths_from_args
        THEN with_env \o manager_paths_from_args(in)
        ELSE with_env

\* The arguments of test_parse_config_files_paths, shortened: relative and
\* absolute paths, one and two paths in a variable, with and without a
\* project name.
ExplicitPaths == {<<>>, <<<<".", "/", "a">>>>, <<<<"/", "c">>>>, <<<<".", "/", "a">>, <<"/", "c">>>>}

ProjectNames == {<<>>, <<"p", " ", "n">>}

PathEnvirons ==
    { IF c = <<>> THEN p ELSE (<<"C", "O", "N", "F", "I", "G">> :> c) @@ p :
        c \in {<<>>, <<"b">>, <<"b", ";", "/", "c">>},
        p \in {<<>>, (<<"P", "_", "N", "_", "C", "O", "N", "F", "I", "G">> :> <<".", ".", "/", "d">>)} }

ArgvConfigs == {<<>>, <<"b">>, <<".", "/", "a", ";", "b">>}

PathInputs ==
    [config_paths : ExplicitPaths,
     project_name : ProjectNames,
     environ : PathEnvirons,
     argv_config : ArgvConfigs,
     parse_config_paths_from_env : BOOLEAN,
     parse_config_paths_from_args : BOOLEAN,
     default_config_dir : {<<"/", "r">>}]

\* The construction of a ConfigManager, as far as its paths go.
ManagerInitPaths ==
    /\ iPc = "paths"
    /\ cpPaths' = manager_config_paths(cpIn)
    /\ iPc' = "resolved"
    /\ UNCHANGED <<uName, uOut, lCls, lPrefix, lList, cpIn>>
    /\ UNCHANGED <<storageVars, proxyVars, heap, mergeVars, envVars, mgrVars>>

PathsInit ==
    /\ StorageOff
    /\ ProxyOff
    /\ MergeOff
    /\ EnvOff
    /\ MgrOff
    /\ iPc = "paths"
    /\ uName = <<>>
    /\ uOut = <<>>
    /\ lCls = <<>>
    /\ lPrefix = <<>>
    /\ lList = <<>>
    /\ cpIn \in PathInputs
    /\ cpPaths = <<>>

PathsNext == ManagerInitPaths

SpecPaths == PathsInit /\ [][PathsNext]_vars

\* ------------------------------------------------------- the storage model
Init == StorageInit /\ ProxyOff /\ MergeOff /\ EnvOff /\ MgrOff /\ IntroOff

Next ==
    \E p \in Procs :
        \/ InitStorage(p) /\ UNCHANGED <<proxyVars, heap, mergeVars, envVars, mgrVars, introVars>>
        \/ InitStorageRevision(p) /\ UNCHANGED <<proxyVars, heap, mergeVars, envVars, mgrVars, introVars>>
        \/ (\E v \in Values : Update(p, v)) /\ UNCHANGED <<proxyVars, heap, mergeVars, envVars, mgrVars, introVars>>
        \/ UpdateRevision(p) /\ UNCHANGED <<proxyVars, heap, mergeVars, envVars, mgrVars, introVars>>
        \/ Current(p) /\ UNCHANGED <<proxyVars, heap, mergeVars, envVars, mgrVars, introVars>>
        \/ CurrentLoad(p) /\ UNCHANGED <<proxyVars, heap, mergeVars, envVars, mgrVars, introVars>>

Spec == Init /\ [][Next]_vars

\* ================================================================= claims
\* The shared context counts as initialized once a revision is in it.
CtxInitialized == ctx.revision # None

\* C1: P1.setup on a fresh context with local value V1, then P2.setup, then
\* P2.current() returns V1; after P1.update(V2), P2's next current() returns V2.
C1_Scenario ==
    /\ (scn.on /\ scn.stage = 6) => ev.ret = scn.v1
    /\ (scn.on /\ scn.stage = 10) => ev.ret = scn.v2

\* C2: within one process, update(V) followed by current(), with no write of
\* another process during or after the update, returns V.
C2_UpdateThenCurrent ==
    (lastUpdate.done /\ ev.op = "current" /\ ev.p = lastUpdate.p) => ev.ret = lastUpdate.v

C2_Witness ==
    /\ lastUpdate.done /\ ev.op = "current" /\ ev.p = lastUpdate.p
    /\ ev.ret = lastUpdate.v
    /\ seeders # {} /\ cfgSeq >= 2

\* C3: with every started write completed and none following, a current()
\* that returns on an attached storage returns the value deserialized from the
\* config written last.
C3_LastWriterWins ==
    (ev.op = "current" /\ ev.sig = "ok" /\ Writing = {} /\ ctx.config # NoValue)
        => ev.ret = model_validate(ctx.config)

C3_Witness ==
    /\ ev.op = "current" /\ ev.sig = "ok" /\ Writing = {}
    /\ cfgSeq >= 2
    /\ lastUpdate.done /\ lastUpdate.p # ev.p
    /\ ev.ret = model_validate(ctx.config)
    /\ ev.ret = lastUpdate.v

\* C4 as stated: in every step the revision changes iff the config changes.
C4_Original ==
    [][(ctx'.revision # ctx.revision) <=> (ctx'.config # ctx.config)]_vars

\* C4 amended: config and revision never change in the same step.  A config
\* change is the first write of a call that still owes its revision write; that
\* second write always changes the revision, to a token no storage has cached,
\* whether or not the config written differs from the previous one; and the
\* revision changes in no other step.
C4_Amended ==
    [][/\ (ctx'.config # ctx.config) =>
              (ctx'.revision = ctx.revision /\ Writing' \ Writing # {})
       /\ \A p \in Writing \ Writing' :
              /\ ctx'.revision # ctx.revision
              /\ ctx'.config = ctx.config
              /\ \A q \in Procs : ctx'.revision # curRev[q] /\ ctx'.revision # rev[q]
       /\ (ctx'.revision # ctx.revision) => (Writing \ Writing' # {})]_vars

\* An update stands between its two writes: the config is already the new one,
\* the revision is still the one readers have cached.
C4_Witness ==
    \E p, q \in Procs :
        /\ pc[p] = "upd_rev" /\ ctx.config = model_dump(arg[p])
        /\ curRev[q] = ctx.revision /\ CtxInitialized
        /\ value[q] # arg[p]

\* C5: the torn pairing a reader can cache is the old revision with the new
\* config; it never caches a revision together with a config older than the
\* one written with that revision.
C5_NeverNewRevisionWithStaleConfig ==
    \A p \in Procs :
        curRev[p] # None => cfgRead[p] >= tokSeq[TokNum(curRev[p])]

\* Reader p has cached, under the revision of the seeding, the config of the
\* update of w, whose revision is not written yet.  The seeding wrote the
\* local value of w, which differs from the config p has cached.
C5_TornRead ==
    \E p, w \in Procs :
        /\ p # w /\ pc[w] = "upd_rev" /\ pc[p] = "idle"
        /\ seeders = {w} /\ curRev[w] = None /\ tokSeq = <<1>>
        /\ curRev[p] = Token(1) /\ ctx.revision = Token(1)
        /\ cfgRead[p] = pendSeq[w]
        /\ cfgRead[p] > tokSeq[TokNum(curRev[p])]
        /\ value[p] = arg[w] /\ value[p] # value[w]

\* C6: once a setup has returned, exactly one process has seeded the context.
C6_ExactlyOneSeeder ==
    (\E p \in Procs : is_initialized(p) /\ pc[p] # "init_rev")
        => Cardinality(seeders) = 1

\* C7: setup on a context not yet initialized writes the local value as config
\* and goes on to write the revision; setup on an initialized context leaves it
\* unchanged; the storage is initialized either way.
C7_SetupSeedsOrAttaches ==
    [][\A p \in Procs : InitStorage(p) =>
          /\ ~CtxInitialized =>
                (ctx'.config = model_dump(value[p]) /\ p \in Writing')
          /\ CtxInitialized => (ctx' = ctx /\ p \notin Writing')
          /\ mpDict'[p] # None]_vars

\* C8: a second setup of an initialized storage on the initialized context
\* writes nothing: the context is what it was and no write is pending.
C8_SecondSetupIdempotent ==
    [][\A p \in Procs :
          (InitStorage(p) /\ is_initialized(p) /\ CtxInitialized /\ Writing = {})
              => (ctx' = ctx /\ Writing' = {})]_vars

\* C9: every storage starts uninitialized, only init_storage initializes it,
\* and update on an uninitialized storage raises and changes neither the local
\* value nor the shared context.
C9_UpdateBeforeSetup ==
    /\ \A p \in Procs : ~is_initialized(p)
    /\ [][\A p \in Procs :
            /\ (mpDict'[p] # mpDict[p]) => InitStorage(p)
            /\ \A v \in Values :
                 (Update(p, v) /\ ~is_initialized(p)) =>
                    /\ ev' = Event(p, "update", v, NoValue, "RuntimeError")
                    /\ UNCHANGED <<value, ctx, mpDict, curRev, pc>>]_vars

C9_Witness ==
    /\ ev.op = "update" /\ ev.sig = "RuntimeError"
    /\ ~is_initialized(ev.p)
    /\ CtxInitialized /\ ctx.config # model_dump(ev.arg)

\* C10: the value of an uninitialized storage never changes, and current() on
\* it returns that value with a warning and leaves the storage uninitialized.
C10_CurrentBeforeSetup ==
    [][\A p \in Procs :
          /\ (~is_initialized(p) /\ mpDict'[p] = None) => value'[p] = value[p]
          /\ (Current(p) /\ ~is_initialized(p)) =>
                /\ ev' = Event(p, "current", NoValue, value[p], "RuntimeWarning")
                /\ mpDict'[p] = None
                /\ pc'[p] = "idle"]_vars

C10_Witness ==
    /\ ev.op = "current" /\ ev.sig = "RuntimeWarning"
    /\ ~is_initialized(ev.p)
    /\ ev.ret = value[ev.p]
    /\ CtxInitialized /\ model_validate(ctx.config) # ev.ret

\* C11: bind succeeds only on an unbound proxy; on a bound proxy it raises and
\* leaves the storage reference as it is, so the reference, once set, never
\* changes.
C11_BindOnce ==
    [][/\ (pxStorage # None) => (pxStorage' = pxStorage)
       /\ \A s \in StorageRefs :
             ProxyBind(s) =>
                IF pxStorage = None
                THEN pxStorage' = s /\ pxEv' = PxEvent("bind", s, NoValue, "ok")
                ELSE pxEv' = PxEvent("bind", s, NoValue, "RuntimeError")]_vars

\* A bind that offered another storage to a bound proxy was refused.
C11_Witness ==
    /\ pxEv.op = "bind" /\ pxEv.sig = "RuntimeError"
    /\ pxStorage # None /\ pxEv.arg # pxStorage

\* C12: is_ready is true iff a storage is bound and it is the InMemoryStorage
\* or a MultiprocessingStorage on which init_storage has been called.
C12_IsReady ==
    (pxEv.op = "is_ready") =>
        (pxEv.ret <=> (\/ pxStorage = "InMemoryStorage"
                       \/ pxStorage = "MultiprocessingStorage" /\ pxSetup))

\* The proxy of a worker, bound to its MultiprocessingStorage, is ready after
\* init_storage although nothing was written to the shared dict.
C12_Witness ==
    /\ pxEv.op = "is_ready" /\ pxEv.ret
    /\ pxStorage = "MultiprocessingStorage" /\ pxSetup
    /\ ~is_main_process(pxProc) /\ ~CtxInitialized

C14_ReadThrough ==
    (pxEv.op = "getattr" /\ pxEv.sig = "ok") =>
        /\ (pxStorage = "InMemoryStorage") => (pxEv.ret = memLast[pxEv.arg])
        /\ (pxStorage = "MultiprocessingStorage") =>
              /\ pxEv.ret = value[pxProc][pxEv.arg]
              /\ (lastUpdate.done /\ lastUpdate.p = pxProc)
                    => (pxEv.ret = lastUpdate.v[pxEv.arg])

\* The proxy was bound, its storage was then updated to another value, and the
\* read through the proxy returned the field of the new value.
C14_Witness ==
    /\ pxEv.op = "getattr" /\ pxEv.sig = "ok"
    /\ pxStorage = "InMemoryStorage" /\ pxUpdated
    /\ pxEv.ret = memLast[pxEv.arg]

RECURSIVE DeepMerged(_, _, _)
\* R is the deep merge of B and O: the keys of both; under a key of O the
\* deep merge of the two mappings when B and O both hold a mapping there, and
\* else what O holds; under a key of B alone what B holds.
DeepMerged(B, O, R) ==
    /\ DOMAIN R = DOMAIN B \cup DOMAIN O
    /\ \A k \in DOMAIN O :
          IF k \in DOMAIN B /\ B[k].t = "dict" /\ O[k].t = "dict"
          THEN R[k].t = "dict" /\ DeepMerged(B[k].d, O[k].d, R[k].d)
          ELSE R[k] = O[k]
    /\ \A k \in DOMAIN B \ DOMAIN O : R[k] = B[k]

\* C18: the mapping cross_merge_dicts returns is the deep merge of the two
\* mappings it was given.
C18_DeepMerge ==
    (mRes # 0) => DeepMerged(mBase0, mOver0, View(heap, mRes))

\* Under "a" both hold a mapping, with a key of dict_a alone and a key of
\* dict_b alone; under "b" a mapping of dict_a gives way to a list of dict_b.
C18_Witness ==
    /\ mRes # 0 /\ mOver # mBase
    /\ DOMAIN mBase0 = Keys /\ DOMAIN mOver0 = Keys
    /\ mBase0["a"].t = "dict" /\ mOver0["a"].t = "dict"
    /\ DOMAIN mBase0["a"].d = {"a"} /\ DOMAIN mOver0["a"].d = {"b"}
    /\ DOMAIN View(heap, mRes)["a"].d = {"a", "b"}
    /\ mBase0["b"].t = "dict" /\ mOver0["b"].t = "list"
    /\ View(heap, mRes)["b"] = mOver0["b"]

\* C19: after cross_merge_dicts, every dict object that existed before the
\* call holds what it held, so dict_a and dict_b are what they were at every
\* depth.
C19_InputsNotMutated ==
    (mRes # 0) =>
        /\ \A a \in 1..Len(heap0) : heap[a] = heap0[a]
        /\ View(heap, mBase) = mBase0
        /\ View(heap, mOver) = mOver0

\* The result differs from dict_a at the top and inside a nested mapping, and
\* is a new object.
C19_Witness ==
    /\ mRes # 0 /\ mRes > Len(heap0)
    /\ "a" \in DOMAIN mBase0 /\ mBase0["a"].t = "dict"
    /\ View(heap, mRes)["a"].t = "dict"
    /\ View(heap, mRes)["a"] # mBase0["a"]
    /\ DOMAIN View(heap, mRes) # DOMAIN mBase0

\* What a mapping holds at a path: a value, or nothing.
Absent == [t |-> "absent"]

RECURSIVE AtFrom(_, _, _)
AtFrom(tree, path, i) ==
    IF path[i] \notin DOMAIN tree
    THEN Absent
    ELSE IF i = Len(path)
         THEN tree[path[i]]
         ELSE IF tree[path[i]].t = "dict"
              THEN AtFrom(tree[path[i]].d, path, i + 1)
              ELSE Absent

At(tree, path) == AtFrom(tree, path, 1)

\* The variable of the i-th field of env_list is set.
IsSet(i) == environ[eList[i].name] # None

ProperPrefix(q, path) == Len(q) < Len(path) /\ SubSeq(path, 1, Len(q)) = q

\* C20 as stated: the call returns; every field whose variable is set has the
\* variable's string at its path; what is at the path of a field whose
\* variable is unset is what was there; used holds exactly the set names.
C20_Original ==
    (eSig # "none") =>
        /\ eSig = "ok"
        /\ \A i \in DOMAIN eList :
              IF IsSet(i)
              THEN At(View(heap, eConfig), eList[i].field_path)
                       = StrVal(environ[eList[i].name])
              ELSE At(View(heap, eConfig), eList[i].field_path)
                       = At(eConfig0, eList[i].field_path)
        /\ {eUsed[k] : k \in DOMAIN eUsed}
              = {eList[i].name : i \in {j \in DOMAIN eList : IsSet(j)}}

\* The walk to the i-th field's path meets a key that holds no mapping: a
\* scalar of the incoming mapping, or the string of an earlier field.
Blocked(i) ==
    \E n \in 1..(Len(eList[i].field_path) - 1) :
        LET q == SubSeq(eList[i].field_path, 1, n)
        IN  \/ At(eConfig0, q).t \notin {"absent", "dict"}
            \/ \E j \in 1..(i - 1) : IsSet(j) /\ eList[j].field_path = q

\* A later field writes its string over the i-th field's path or over a
\* mapping on the way to it.
Overwritten(i) ==
    \E j \in (i + 1)..Len(eList) :
        /\ IsSet(j)
        /\ \/ ProperPrefix(eList[j].field_path, eList[i].field_path)
           \/ /\ eList[j].field_path = eList[i].field_path
              /\ environ[eList[j].name] # environ[eList[i].name]

\* The paths of the i-th and the j-th field lie on one branch.
OnOneBranch(i, j) ==
    \/ eList[j].field_path = eList[i].field_path
    \/ ProperPrefix(eList[j].field_path, eList[i].field_path)
    \/ ProperPrefix(eList[i].field_path, eList[j].field_path)

\* C20 amended: the call raises TypeError exactly when the path of a set field
\* runs through a key that holds a scalar of the incoming mapping or the
\* string of an earlier set field.  When it returns, every set field has its
\* variable's string at its path unless a later set field was written over
\* it, the path of an unset field that shares no branch with a set field
\* holds what it held, and used lists the names of the set fields in list
\* order.
C20_Amended ==
    (eSig # "none") =>
        /\ (eSig = "TypeError") <=> (\E i \in DOMAIN eList : IsSet(i) /\ Blocked(i))
        /\ (eSig = "ok") =>
              /\ \A i \in DOMAIN eList :
                    (IsSet(i) /\ ~Overwritten(i)) =>
                        At(View(heap, eConfig), eList[i].field_path)
                            = StrVal(environ[eList[i].name])
              /\ \A i \in DOMAIN eList :
                    (~IsSet(i) /\ \A j \in DOMAIN eList : IsSet(j) => ~OnOneBranch(i, j)) =>
                        At(View(heap, eConfig), eList[i].field_path)
                            = At(eConfig0, eList[i].field_path)
              /\ eUsed = [k \in 1..Len(SelectSeq([i \in DOMAIN eList |-> i], IsSet)) |->
                             eList[SelectSeq([i \in DOMAIN eList |-> i], IsSet)[k]].name]

\* Into a fresh mapping: a set field under a mapping that the call created,
\* a set field at the top, and a field left unset.
C20_Witness ==
    /\ eSig = "ok" /\ eConfig0 = <<>>
    /\ \E i, j, k \in DOMAIN eList :
          /\ IsSet(i) /\ Len(eList[i].field_path) = 2
          /\ At(View(heap, eConfig), eList[i].field_path) = StrVal(environ[eList[i].name])
          /\ IsSet(j) /\ Len(eList[j].field_path) = 1
          /\ environ[eList[j].name] = ""
          /\ At(View(heap, eConfig), eList[j].field_path) = StrVal("")
          /\ ~IsSet(k)
          /\ At(View(heap, eConfig), eList[k].field_path) = Absent

\* C15: a load whose validation fails after an earlier load succeeded ends
\* with the validation error and leaves the held configuration as it was:
\* the held object, every configuration object and its attributes, the
\* shared mapping of the multiprocess variant, and so whatever is read
\* through the held object.
C15_FailedLoadKeepsHeld ==
    [][(mSig' = "ValidationError" /\ mLoads' = mLoads + 1 /\ mConfig # 0) =>
          /\ mConfig' = mConfig
          /\ objs' = objs
          /\ mDict' = mDict
          /\ \A name \in {"bool_field", "nested_config", "nested_config_optional"} :
                GetConfigAttr(objs', mDict', mConfig', name)
                    = GetConfigAttr(objs, mDict, mConfig, name)]_vars

\* A second load of the multiprocess variant has failed in validation; the
\* shared mapping is the data of the first load.
C15_Witness ==
    /\ mVariant = "MultiprocessingConfig"
    /\ mLoads = 2
    /\ mSig = "ValidationError"
    /\ mConfig # 0
    /\ ~ConfigValidator(mRaw).ok
    /\ mDict = mValid
    /\ GetConfigAttr(objs, mDict, mConfig, "bool_field") = mValid["bool_field"]

\* C16: once a load has succeeded, the manager holds the object the first
\* successful load returned; read through it, bool_field is that of the
\* most recent successful load; and a nested object the first load returned
\* reads the nested_field of the most recent successful load whenever that
\* load's data has the nested configuration.
C16_FirstLoadReferences ==
    (mConfig # 0) =>
        /\ mConfig = mFirst.root
        /\ GetConfigAttr(objs, mDict, mFirst.root, "bool_field") = mValid["bool_field"]
        /\ \A name \in nested_configuration_fields :
              (mFirst[name] # 0 /\ IsModel(mValid[name])) =>
                  GetConfigAttr(objs, mDict, mFirst[name], "nested_field")
                      = mValid[name].d["nested_field"]

\* The variables that are set, as a mapping: each string at the path of its
\* property.
EnvTree(env) ==
    (IF env["BOOL_FIELD"] # None
     THEN ("bool_field" :> StrVal(env["BOOL_FIELD"])) ELSE <<>>)
    @@ (IF env["NESTED_CONFIG_NESTED_FIELD"] # None
        THEN ("nested_config" :> NestedRaw(env["NESTED_CONFIG_NESTED_FIELD"])) ELSE <<>>)
    @@ (IF env["NESTED_CONFIG_OPTIONAL"] # None
        THEN ("nested_config_optional" :> StrVal(env["NESTED_CONFIG_OPTIONAL"])) ELSE <<>>)

\* The sources of a load, lowest precedence first.
Sources(in) == <<in.initial>> \o in.files \o <<EnvTree(in.env)>>

KeyPaths ==
    { <<"bool_field">>, <<"nested_config", "nested_field">>,
      <<"nested_config_optional">>, <<"nested_config_optional", "nested_field">> }

\* A value that is no mapping.
IsLeaf(x) == x.t \notin {"absent", "dict"}

\* The source src[i] has a value at the path, and no later source has one
\* at the path or on the way to it.
Highest(src, i, path) ==
    /\ IsLeaf(At(src[i], path))
    /\ \A j \in (i + 1)..Len(src) :
          /\ At(src[j], path) = Absent
          /\ \A n \in 1..(Len(path) - 1) : ~IsLeaf(At(src[j], SubSeq(path, 1, n)))

\* C17: when a load reaches the validator, the mapping built before the hook
\* holds at every key path the value of the highest-precedence source that
\* supplies it (initial mapping, then the files in list order, then the
\* environment), and the mapping validated is the hook's output for it.
C17_Precedence ==
    (mSig \in {"ok", "ValidationError"}) =>
        /\ mRaw = pre_validation_hook(mIn.hook, mPreHook)
        /\ \A path \in KeyPaths :
              \A i \in 1..Len(Sources(mIn)) :
                  Highest(Sources(mIn), i, path) =>
                      At(mPreHook, path) = At(Sources(mIn)[i], path)

\* C21: when a load without a hook reaches the validator, the mapping it
\* validates holds, for every property whose variable is set, the variable's
\* string at the property's path, and used_env names the variable.
C21_EnvApplied ==
    (mSig \in {"ok", "ValidationError"} /\ mIn.hook = None) =>
        \A i \in 1..Len(configuration_properties) :
            LET config_property == configuration_properties[i]
            IN  (mIn.env[config_property.env] # None) =>
                    /\ At(mRaw, config_property.path) = StrVal(mIn.env[config_property.env])
                    /\ \E k \in DOMAIN mUsedEnv : mUsedEnv[k] = config_property.env

RECURSIVE ObjView(_, _)
\* The fields of the configuration object at a, a nested configuration
\* object shown by its own fields: raw mappings and objects stay apart.
ObjView(os, a) ==
    [name \in DOMAIN os[a] |->
        IF IsBaseConfig(os[a][name])
        THEN [t |-> "config", c |-> ObjView(os, os[a][name].o)]
        ELSE os[a][name]]

\* C28: the fields of the InMemoryConfig object the manager holds are those
\* of an object constructed from the data of the last successful load; a
\* nested field that validated to a model holds a configuration object.
C28_UpdateEqualsConstruction ==
    (mVariant = "InMemoryConfig" /\ mConfig # 0) =>
        LET fresh == InMemoryInit(<<>>, mValid)
        IN  /\ ObjView(objs, mConfig) = ObjView(fresh.os, fresh.a)
            /\ \A name \in nested_configuration_fields :
                  IsModel(mValid[name]) => IsBaseConfig(objs[mConfig][name])

\* C29: every nested object of the MultiprocessingConfig object the manager
\* holds has as its access path the path of its data in the shared mapping,
\* and nested_field read through it is the value stored there.
C29_AccessPaths ==
    (mVariant = "MultiprocessingConfig" /\ mConfig # 0) =>
        \A name \in nested_configuration_fields :
            IsBaseConfig(objs[mConfig][name]) =>
                /\ objs[objs[mConfig][name].o]["_field_access_path"].p = <<name>>
                /\ IsModel(mDict[name])
                /\ GetConfigAttr(objs, mDict, objs[mConfig][name].o, "nested_field")
                       = mDict[name].d["nested_field"]

\* C30: once cross_merge_dicts has returned, whatever is written in place
\* into the mapping returned, dict_a and dict_b hold what they held when
\* the call was made.
C30_NoSharedMapping ==
    (mRes # 0) =>
        /\ View(heap, mBase) = mBase0
        /\ View(heap, mOver) = mOver0

\* C26: while no call owes the shared dict its revision write, a bound
\* storage that has cached the revision now in the shared dict holds the
\* value deserialized from the config now in the shared dict.
C26_QuiescentCache ==
    (Writing = {}) =>
        \A p \in Procs :
            (mpDict[p] # None /\ curRev[p] # None /\ curRev[p] = ctx.revision) =>
                /\ ctx.config # NoValue
                /\ value[p] = model_validate(ctx.config)

\* Two writes are done, the later one an update by w; reader p has since
\* cached its revision together with its config, which is not the value p
\* was constructed with or held before.
C26_Witness ==
    \E p, w \in Procs :
        /\ p # w /\ Writing = {} /\ pc[p] = "idle"
        /\ lastUpdate.done /\ lastUpdate.p = w
        /\ Len(tokSeq) >= 2
        /\ mpDict[p] # None /\ curRev[p] = ctx.revision /\ curRev[p] = Token(Len(tokSeq))
        /\ value[p] = lastUpdate.v
        /\ value[p] = model_validate(ctx.config)
        /\ curRev[w] # ctx.revision

\* C27: a revision is in the shared dict only when a config is; no current()
\* ends with the KeyError of a missing config; and a current() on a storage
\* that has cached no revision while the shared dict has none returns the
\* value the storage holds locally.
C27_RevisionImpliesConfig ==
    /\ ctx.revision # None => ctx.config # NoValue
    /\ \A p \in Procs : pc[p] = "cur_cfg" => ctx.config # NoValue
    /\ ev.op = "current" => ev.sig # "KeyError"
    /\ (ev.op = "current" /\ ev.sig = "ok" /\ ctx.revision = None) =>
           /\ curRev[ev.p] = None
           /\ ev.ret = value[ev.p]

\* A worker bound before the seeding has had its local value from current();
\* the main process is seeding now: the config is written, the revision is
\* not yet.
C27_Witness ==
    \E p, m \in Procs :
        /\ p # m /\ is_main_process(m) /\ pc[m] = "init_rev"
        /\ ev.op = "current" /\ ev.p = p /\ ev.sig = "ok" /\ ev.ret = value[p]
        /\ mpDict[p] # None /\ curRev[p] = None
        /\ ctx.revision = None /\ ctx.config = model_dump(value[m])
        /\ value[p] # value[m]

\* ---------------------------------------------------------------- C24
\* The normal form of a name: upper case, every maximal run of characters
\* that are neither letters nor digits one '_', no such run at either end.
Mark(c) == IF c \in AlNum THEN Upper(c) ELSE "_"

KeptAt(name, i) ==
    \/ name[i] \in AlNum
    \/ /\ i > 1
       /\ name[i - 1] \in AlNum
       /\ \E j \in (i + 1)..Len(name) : name[j] \in AlNum

RECURSIVE NormalFrom(_, _)
NormalFrom(name, i) ==
    IF i > Len(name) THEN <<>>
    ELSE (IF KeptAt(name, i) THEN <<Mark(name[i])>> ELSE <<>>)
         \o NormalFrom(name, i + 1)

\* C24: unify_name returns the name in upper case with every maximal run of
\* non-alphanumeric characters collapsed to a single '_' and the leading and
\* trailing runs removed.
C24_Normalised ==
    iPc = "unified" => uOut = NormalFrom(uName, 1)

\* ---------------------------------------------------------------- C22
\* The field a path of an entry leads to, through the configuration classes
\* its segments name.
KeyOf(field) == Or(field.alias, field.name)

ModelsIn(annotation) ==
    LET types == unwrap_types(annotation)
    IN  {types[i].cls : i \in {j \in DOMAIN types : types[j].k = "model"}}

RECURSIVE DeclaredAt(_, _, _)
DeclaredAt(fields, path, i) ==
    LET field == fields[CHOOSE n \in DOMAIN fields : KeyOf(fields[n]) = path[i]]
    IN  IF i = Len(path) THEN field
        ELSE DeclaredAt(model_fields(CHOOSE c \in ModelsIn(field.annotation) : TRUE),
                        path, i + 1)

Segment(s) == [i \in DOMAIN s |-> Mark(s[i])]

SynthesisedName(prefix, path) ==
    Join(<<"_">>, (IF prefix # <<>> THEN <<Segment(prefix)>> ELSE <<>>)
                  \o [i \in DOMAIN path |-> Segment(path[i])])

\* C22: the name of an entry whose field declares no override is the
\* '_'-join of the prefix, if one is given, and the segments of the entry's
\* field path, each in upper case with every non-alphanumeric character
\* replaced by '_'; the name of an entry whose field declares an override is
\* the override, whatever the prefix.
C22_EnvNames ==
    iPc = "listed" =>
        \A i \in DOMAIN lList :
            LET field == DeclaredAt(lCls, lList[i].field_path, 1)
            IN  lList[i].name =
                    IF field.json_schema_extra # <<>>
                    THEN field.json_schema_extra[1]
                    ELSE SynthesisedName(lPrefix, lList[i].field_path)

\* AppConfig listed under the prefix 'project name': the override of debug
\* is kept and the nested flag is named PROJECT_NAME_NESTED_FLAG.
C22_Witness ==
    /\ iPc = "listed"
    /\ lCls = AppConfig
    /\ lPrefix = <<"p", "r", "o", "j", "e", "c", "t", " ", "n", "a", "m", "e">>
    /\ Len(lList) = 3
    /\ lList[1].name = <<"D", "E", "B", "U", "G", "_", "O", "V", "E", "R", "R", "I", "D", "E">>
    /\ lList[2].name = <<"P", "R", "O", "J", "E", "C", "T", "_", "N", "A", "M", "E", "_", "S", "T", "R", "I", "N", "G">>
    /\ lList[3].field_path = <<<<"n", "e", "s", "t", "e", "d">>, <<"f", "l", "a", "g">>>>
    /\ lList[3].name = <<"P", "R", "O", "J", "E", "C", "T", "_", "N", "A", "M", "E", "_", "N", "E", "S", "T", "E", "D", "_", "F", "L", "A", "G">>

\* ---------------------------------------------------------------- C23
\* A union of alternatives none of which is None.
PlainUnion(annotation) ==
    /\ annotation.k = "union"
    /\ \A i \in DOMAIN annotation.args : annotation.args[i] # AtomT("NoneType")

\* C23: a field declared with a union has exactly one entry at its own path
\* and that entry carries the whole declared union as its type; when the
\* union names a configuration class among its alternatives the sub-fields
\* of that class are listed as well.
C23_OneEntryPerUnion ==
    iPc = "listed" =>
        /\ \A i \in DOMAIN lList :
              LET field == DeclaredAt(lCls, lList[i].field_path, 1)
              IN  PlainUnion(field.annotation) =>
                      /\ lList[i].type = field.annotation
                      /\ \A j \in DOMAIN lList :
                            lList[j].field_path = lList[i].field_path => j = i
        /\ \A n \in DOMAIN lCls :
              PlainUnion(lCls[n].annotation) =>
                  /\ \E i \in DOMAIN lList : lList[i].field_path = <<KeyOf(lCls[n])>>
                  /\ ModelsIn(lCls[n].annotation) # {} =>
                        \E i \in DOMAIN lList :
                            /\ Len(lList[i].field_path) = 2
                            /\ lList[i].field_path[1] = KeyOf(lCls[n])

\* ---------------------------------------------------------------- C25
\* The paths a ';'-separated string names, each resolved against the root.
ResolvedOf(in, str) ==
    IF str = <<>> THEN <<>>
    ELSE [i \in DOMAIN Split(str, ";") |->
              abs_config_path(in.default_config_dir, Split(str, ";")[i])]

ConfigVariable(in) ==
    IF in.project_name = <<>> THEN <<"C", "O", "N", "F", "I", "G">>
    ELSE Segment(in.project_name) \o <<"_", "C", "O", "N", "F", "I", "G">>

\* C25: the path list of a manager built with both sources of overrides
\* enabled is the explicit paths, each resolved, then the paths of the
\* CONFIG variable of the project, then the paths of the --config argument,
\* and nothing else.
C25_PathList ==
    (iPc = "resolved" /\ cpIn.parse_config_paths_from_env
                      /\ cpIn.parse_config_paths_from_args) =>
        cpPaths =
            [i \in DOMAIN cpIn.config_paths |->
                 abs_config_path(cpIn.default_config_dir, cpIn.config_paths[i])]
            \o ResolvedOf(cpIn, EnvironGet(cpIn.environ, ConfigVariable(cpIn)))
            \o ResolvedOf(cpIn, cpIn.argv_config)

====
